---- MODULE Spec2Model ----
(***************************************************************************)
(* State-machine model of the two realtime voice-session hooks of          *)
(* src/src/hooks/use-live-api.ts: useLiveApi (message-oriented session)    *)
(* and useOpenAiWebRtc (peer-connection session).                          *)
(*                                                                         *)
(* Every invocation of connect() is an "attempt" with its own program      *)
(* counter pc[a]; the objects an attempt creates (media stream, nodes,     *)
(* session, peer connection, ...) are indexed by the attempt.  The hook's  *)
(* useRef cells hold the index of the object they point at, or Null.       *)
(* React state (isConnected, isConnecting, error) is the latest value      *)
(* passed to its setter; `closure` is the snapshot of that state captured  *)
(* by the connect callback of the last render.                             *)
(***************************************************************************)
EXTENDS Integers, Sequences, FiniteSets, TLC

\* Number of connect() invocations the caller makes in one behaviour.
MaxAttempts == 2

Attempts == 1..MaxAttempts

\* The null content of a useRef cell.
Null == 0

Hooks == {"useLiveApi", "useOpenAiWebRtc"}

VARIABLES
    hook,                   \* which of the two hooks the page mounted
    isConnected,            \* useState
    isConnecting,           \* useState
    error,                  \* useState: "none" or the kind of the Error object
    closure,                \* state captured by the rendered callbacks
    pc,                     \* pc[a]: where invocation a of connect() stands
    ctxState,               \* audioContextRef: "null" | "suspended" | "running"
    mediaStreamRef,         \* useLiveApi refs
    inputSourceRef,
    inputProcessorRef,
    sessionRef,
    greetingSentRef,
    nextScheduledTimeRef,
    currentTime,            \* ctx.currentTime, the playback clock
    stream,                 \* stream[a]: "none" | "live" | "stopped"
    inputSource,            \* inputSource[a]: "none" | "connected" | "disconnected"
    processor,              \* processor[a]: "none" | "connected" | "disconnected"
    onaudioprocess,         \* onaudioprocess[a]: the capture handler is registered
    session,                \* session[a]: "none" | "dialing" | "open" | "closing" | "closed"
    isMicMuted,             \* useOpenAiWebRtc: useState
    localStreamRef,         \* useOpenAiWebRtc refs
    remoteStreamRef,
    audioElementRef,
    peerConnectionRef,
    dataChannelRef,
    outputSourceRef,
    assistantRespondingRef,
    lastHandledUserTranscriptRef,
    lastAssistantDoneAtRef,
    responseWatchdogRef,    \* handle of the last armed timer (its deadline), or Null
    pendingTimers,          \* timers armed with window.setTimeout and not yet run or cleared
    now,                    \* Date.now()
    localStream,            \* localStream[a]: "none" | "live" | "stopped"
    trackEnabled,           \* trackEnabled[a]: track.enabled of the microphone track
    remoteStream,           \* remoteStream[a]: "none" | "empty" | "audio" | "stopped"
    audioElement,           \* audioElement[a]: "none" | "attached" | "detached"
    peerConnection,         \* peerConnection[a]: "none" or its connectionState
    dataChannel,            \* dataChannel[a]: "none" or its readyState
    outputSource,           \* outputSource[a]: "none" | "connected" | "disconnected"
    emitted,                \* what the last step sent and called back
    \* history variables (not program state)
    abandoned,              \* abandoned[a]: disconnect() ran while a was suspended
    connectedBy,            \* attempt whose signal last set isConnected true
    relCount,               \* relCount[a][k]: times object k of attempt a was released
    sendLog,                \* was a chunk handed to sendRealtimeInput while not Connected
    liveLog,                \* liveLog[a]: did session a receive a setupComplete, how
                            \* many greeting triggers were sent on it (2: more),
                            \* did it receive a message of no recognized shape
    chanLog,                \* chanLog[a]: the first two control messages sent on
                            \* data channel a, the session.update sent (2: more)
    lastSched,              \* the last scheduled payload and the one before it
    prevUser                \* the last completed user-transcript event since the
                            \* dedup memory was reset: its normalized text, whether
                            \* its handler sent and called back nothing (silent),
                            \* whether the event
                            \* before it had the same normalized text (same) and
                            \* was forwarded too (dup)

\* One sample through the PCM16 conversions of useLiveApi.
VARIABLES
    codecPc,                \* "idle" | "captured" | "encoded" | "decoded"
    dataToSend,             \* the captured sample, in units of 1 / SampleDen
    pcmData,                \* the Int16 the encoder stored for it
    float32                 \* the sample the decoder made of an Int16, in units
                            \* of 1 / DecodeDen

codecVars == <<codecPc, dataToSend, pcmData, float32>>

\* One call of buildMathTutorSystemInstruction.
VARIABLES
    promptPc,               \* "idle" | "called" | "called2" (the two-parameter
                            \* definition) | "built"
    question,               \* the arguments
    answer,
    wrongAnswer,            \* [defined, text]: undefined, or a string
    systemInstruction       \* the string returned

promptVars == <<promptPc, question, answer, wrongAnswer, systemInstruction>>

\* The relay server: POST /api/openai/session.
VARIABLES
    apiKey,                 \* process.env.OPENAI_API_KEY is set
    relayPc,                \* relayPc[r]: where the handler of request r stands
    sessionResp,            \* sessionResp[r]: status of the upstream response (0: none yet)
    res                     \* res[r]: the responses sent for request r, in order

relayVars == <<apiKey, relayPc, sessionResp, res>>

\* The page (App, OpenAIApp).
VARIABLES
    conversationLog         \* useState: the entries [role, text] shown

\* The state outside the two hooks' sessions.
appVars == <<codecVars, promptVars, relayVars, conversationLog>>

turnVars == <<assistantRespondingRef, lastHandledUserTranscriptRef,
              lastAssistantDoneAtRef, responseWatchdogRef, pendingTimers>>

rtcRefs == <<localStreamRef, remoteStreamRef, audioElementRef, peerConnectionRef,
             dataChannelRef, outputSourceRef>>

rtcObjs == <<localStream, trackEnabled, remoteStream, audioElement, peerConnection,
             dataChannel, outputSource>>

rtcVars == <<isMicMuted, rtcRefs, rtcObjs, turnVars, now, prevUser, chanLog>>

vars == <<rtcVars, appVars, emitted, hook, isConnected, isConnecting, error, closure, pc, ctxState,
          mediaStreamRef, inputSourceRef, inputProcessorRef, sessionRef,
          greetingSentRef, nextScheduledTimeRef, currentTime,
          stream, inputSource, processor, onaudioprocess, session,
          abandoned, connectedBy, relCount, sendLog, liveLog, lastSched>>

Kinds == {"stream", "inputSource", "processor", "session", "localStream",
          "remoteStream", "audioElement", "peerConnection", "dataChannel",
          "outputSource"}

\* Date.now() - lastAssistantDoneAtRef.current < 1200 (milliseconds).
SuppressionWindow == 1200

\* window.setTimeout(..., 12000) (milliseconds).
WatchdogTimeout == 12000

\* Date.now() when the page is loaded: later than one suppression window after 0.
StartNow == SuppressionWindow + WatchdogTimeout

\* ctx.currentTime + 0.1, in tenths of a second.
ResetLead == 1

Min(a, b) == IF a < b THEN a ELSE b
Max(a, b) == IF a > b THEN a ELSE b

\* One more release of object k of the attempt a ref points at (none if Null).
Released(rc, ref, k) ==
    IF ref = Null THEN rc ELSE [rc EXCEPT ![ref][k] = Min(@ + 1, 2)]

\* Characters of the transcripts: a blank, a letter in both cases, another letter.
Chars == {" ", "a", "A", "b"}

\* Longest transcript text an inbound event carries.
MaxTextLen == 1

\* The strings of at most n characters.
TextsUpTo(n) == UNION {[1..k -> Chars] : k \in 0..n}

\* String.prototype.trim: leading and trailing blanks removed.
RECURSIVE TrimLeft(_)
TrimLeft(t) == IF t # <<>> /\ Head(t) = " " THEN TrimLeft(Tail(t)) ELSE t

RECURSIVE TrimRight(_)
TrimRight(t) ==
    IF t # <<>> /\ t[Len(t)] = " " THEN TrimRight(SubSeq(t, 1, Len(t) - 1)) ELSE t

Trim(t) == TrimRight(TrimLeft(t))

\* String.prototype.toLowerCase
ToLowerCase(t) == [i \in 1..Len(t) |-> IF t[i] = "A" THEN "a" ELSE t[i]]

\* An output of a handler: a callback invoked or a message sent.
Out(kind, text) == [kind |-> kind, text |-> text]

\* The control messages among the outputs of a handler, in order.
ControlKinds(out) ==
    LET sent == SelectSeq(out, LAMBDA e : e.kind \in {"session.update",
                                                      "response.create"})
    IN  [i \in DOMAIN sent |-> sent[i].kind]

\* The log of a data channel after a handler sent out on it.
Logged(log, out) ==
    [first |-> SubSeq(log.first \o ControlKinds(out), 1,
                      Min(2, Len(log.first \o ControlKinds(out)))),
     updates |-> Min(2, log.updates
                        + Len(SelectSeq(out, LAMBDA e : e.kind = "session.update")))]

\* No payload scheduled yet.
NoSched == [n |-> 0, start |-> 0, end |-> 0, clock |-> 0,
            prevStart |-> 0, prevEnd |-> 0]

\* No setupComplete received and no greeting trigger sent on a session.
NoGreeting == [setup |-> FALSE, sent |-> 0, ignored |-> FALSE]

\* Nothing sent on a data channel.
NoControl == [first |-> <<>>, updates |-> 0]

\* No completed user-transcript event since the dedup memory was reset.
NoPrev == [seen |-> FALSE, norm |-> <<>>, silent |-> TRUE, same |-> FALSE,
           dup |-> FALSE]

\* Largest value of the playback clock, of a payload's duration and of the
\* timeline (tenths of a second).
MaxClock == 2
MaxDuration == 2
MaxTimeline == 6

\* Date.now() advances in steps of TickStep, at most MaxTicks times.
TickStep == 1200
MaxTicks == 1

\* Await points of the two connect() bodies.
LiveAwaits == {"resume", "getUserMedia", "dial"}
RtcAwaits == {"resume", "token", "tokenText", "tokenJson", "getUserMedia",
              "createOffer", "setLocalDescription", "sdp", "sdpErrText", "sdpText",
              "setRemoteDescription"}
Suspended(a) == pc[a] \in LiveAwaits \cup RtcAwaits

----------------------------------------------------------------------------
\* The two hooks after the component mounted.
HooksInit ==
    /\ hook \in Hooks
    /\ isConnected = FALSE
    /\ isConnecting = FALSE
    /\ error = "none"
    /\ closure = [isConnected |-> FALSE, isConnecting |-> FALSE, isMicMuted |-> FALSE]
    /\ pc = [a \in Attempts |-> "idle"]
    /\ ctxState = "null"
    /\ mediaStreamRef = Null
    /\ inputSourceRef = Null
    /\ inputProcessorRef = Null
    /\ sessionRef = Null
    /\ greetingSentRef = FALSE
    /\ nextScheduledTimeRef = 0
    /\ currentTime = 0
    /\ stream = [a \in Attempts |-> "none"]
    /\ inputSource = [a \in Attempts |-> "none"]
    /\ processor = [a \in Attempts |-> "none"]
    /\ onaudioprocess = [a \in Attempts |-> FALSE]
    /\ session = [a \in Attempts |-> "none"]
    /\ isMicMuted = FALSE
    /\ localStreamRef = Null
    /\ remoteStreamRef = Null
    /\ audioElementRef = Null
    /\ peerConnectionRef = Null
    /\ dataChannelRef = Null
    /\ outputSourceRef = Null
    /\ assistantRespondingRef = FALSE
    /\ lastHandledUserTranscriptRef = <<>>
    /\ lastAssistantDoneAtRef = 0
    /\ responseWatchdogRef = Null
    /\ pendingTimers = {}
    /\ now = StartNow
    /\ localStream = [a \in Attempts |-> "none"]
    /\ trackEnabled = [a \in Attempts |-> FALSE]
    /\ remoteStream = [a \in Attempts |-> "none"]
    /\ audioElement = [a \in Attempts |-> "none"]
    /\ peerConnection = [a \in Attempts |-> "none"]
    /\ dataChannel = [a \in Attempts |-> "none"]
    /\ outputSource = [a \in Attempts |-> "none"]
    /\ emitted = <<>>
    /\ abandoned = [a \in Attempts |-> FALSE]
    /\ connectedBy = Null
    /\ relCount = [a \in Attempts |-> [k \in Kinds |-> 0]]
    /\ sendLog = "none"
    /\ liveLog = [a \in Attempts |-> NoGreeting]
    /\ lastSched = NoSched
    /\ prevUser = NoPrev
    /\ chanLog = [a \in Attempts |-> NoControl]

\* No sample is in the conversions.
CodecIdle ==
    /\ codecPc = "idle"
    /\ dataToSend = 0
    /\ pcmData = 0
    /\ float32 = 0

\* wrongAnswer?: string left out.
Undefined == [defined |-> FALSE, text |-> <<>>]

\* No call of the prompt builder is in progress.
PromptIdle ==
    /\ promptPc = "idle"
    /\ question = <<>>
    /\ answer = <<>>
    /\ wrongAnswer = Undefined
    /\ systemInstruction = <<>>

MaxRequests == 2
Requests == 1..MaxRequests

\* The relay has received no request.
RelayIdle ==
    /\ apiKey = FALSE
    /\ relayPc = [r \in Requests |-> "idle"]
    /\ sessionResp = [r \in Requests |-> 0]
    /\ res = [r \in Requests |-> <<>>]

\* useState<ConversationEntry[]>([])
LogEmpty == conversationLog = <<>>

Init == HooksInit /\ CodecIdle /\ PromptIdle /\ RelayIdle /\ LogEmpty

----------------------------------------------------------------------------
\* React re-renders the component: connect is re-created over the current state.
Render ==
    /\ closure # [isConnected |-> isConnected, isConnecting |-> isConnecting,
                  isMicMuted |-> isMicMuted]
    /\ closure' = [isConnected |-> isConnected, isConnecting |-> isConnecting,
                   isMicMuted |-> isMicMuted]
    /\ emitted' = <<>>
    /\ UNCHANGED <<hook, appVars, rtcVars, isConnected, isConnecting, error, pc,
                   ctxState, mediaStreamRef, inputSourceRef, inputProcessorRef,
                   sessionRef, greetingSentRef, nextScheduledTimeRef,
                   currentTime, stream, inputSource, processor, onaudioprocess,
                   session, abandoned, connectedBy, relCount, sendLog, liveLog,
                   lastSched>>

\* session.close() as seen by the session object.
CloseSession(s) == IF s \in {"open", "dialing"} THEN "closing" ELSE s

\* A disconnect that stops the microphone stream but keeps its handle.
LiveTeardownKeepsStreamRef(sess) ==
    /\ session' = IF sessionRef # Null
                  THEN [sess EXCEPT ![sessionRef] = CloseSession(@)]
                  ELSE sess
    /\ sessionRef' = Null
    /\ processor' = IF inputProcessorRef # Null
                    THEN [processor EXCEPT ![inputProcessorRef] = "disconnected"]
                    ELSE processor
    /\ inputProcessorRef' = Null
    /\ inputSource' = IF inputSourceRef # Null
                      THEN [inputSource EXCEPT ![inputSourceRef] = "disconnected"]
                      ELSE inputSource
    /\ inputSourceRef' = Null
    /\ stream' = IF mediaStreamRef # Null
                 THEN [stream EXCEPT ![mediaStreamRef] = "stopped"]
                 ELSE stream
    /\ mediaStreamRef' = mediaStreamRef
    /\ relCount' = Released(Released(Released(Released(relCount,
                        sessionRef, "session"), inputProcessorRef, "processor"),
                        inputSourceRef, "inputSource"), mediaStreamRef, "stream")
    /\ isConnected' = FALSE
    /\ isConnecting' = FALSE
    /\ connectedBy' = Null

\* useLiveApi.disconnect: the releases and the two state setters.
\* sess: the sessions as they stand when disconnect() is entered.
LiveTeardown(sess) ==
    /\ session' = IF sessionRef # Null
                  THEN [sess EXCEPT ![sessionRef] = CloseSession(@)]
                  ELSE sess
    /\ sessionRef' = Null
    /\ processor' = IF inputProcessorRef # Null
                    THEN [processor EXCEPT ![inputProcessorRef] = "disconnected"]
                    ELSE processor
    /\ inputProcessorRef' = Null
    /\ inputSource' = IF inputSourceRef # Null
                      THEN [inputSource EXCEPT ![inputSourceRef] = "disconnected"]
                      ELSE inputSource
    /\ inputSourceRef' = Null
    /\ stream' = IF mediaStreamRef # Null
                 THEN [stream EXCEPT ![mediaStreamRef] = "stopped"]
                 ELSE stream
    /\ mediaStreamRef' = Null
    /\ relCount' = Released(Released(Released(Released(relCount,
                        sessionRef, "session"), inputProcessorRef, "processor"),
                        inputSourceRef, "inputSource"), mediaStreamRef, "stream")
    /\ isConnected' = FALSE
    /\ isConnecting' = FALSE
    /\ connectedBy' = Null

\* Every attempt suspended at an await when the caller runs disconnect() is abandoned.
Abandon == [a \in Attempts |-> abandoned[a] \/ Suspended(a)]

LiveDisconnect ==
    /\ hook = "useLiveApi"
    /\ LiveTeardown(session)
    /\ abandoned' = Abandon
    /\ emitted' = <<>>
    /\ UNCHANGED <<hook, appVars, rtcVars, error, closure, pc, ctxState, greetingSentRef,
                   nextScheduledTimeRef, currentTime, onaudioprocess, sendLog, liveLog,
                   lastSched>>

\* The catch block of useLiveApi.connect, entered from a rejected await (a dial
\* that rejects leaves no open socket behind).
LiveCatch(a) ==
    /\ pc' = [pc EXCEPT ![a] = "failed"]
    /\ error' = "connect"
    /\ LiveTeardown(IF pc[a] = "dial" THEN [session EXCEPT ![a] = "closed"]
                                      ELSE session)
    /\ UNCHANGED abandoned

\* connect(config) up to its first await.
LiveConnect(a) ==
    /\ hook = "useLiveApi"
    /\ pc[a] = "idle"
    /\ \A b \in Attempts : b < a => pc[b] # "idle"
    /\ IF closure.isConnected \/ closure.isConnecting
       THEN /\ pc' = [pc EXCEPT ![a] = "returned"]
            /\ UNCHANGED <<isConnecting, error, greetingSentRef, ctxState>>
       ELSE /\ isConnecting' = TRUE
            /\ error' = "none"
            /\ greetingSentRef' = FALSE
            /\ \E s \in (IF ctxState = "null" THEN {"suspended", "running"}
                                              ELSE {ctxState}) :
                  /\ ctxState' = s
                  /\ pc' = [pc EXCEPT ![a] = IF s = "suspended" THEN "resume"
                                                               ELSE "getUserMedia"]
    /\ emitted' = <<>>
    /\ UNCHANGED <<hook, appVars, rtcVars, isConnected, closure, mediaStreamRef,
                   inputSourceRef, inputProcessorRef, sessionRef,
                   nextScheduledTimeRef, currentTime, stream, inputSource,
                   processor, onaudioprocess, session, abandoned, connectedBy,
                   relCount, sendLog, liveLog, lastSched>>

\* await ctx.resume() resolves; getUserMedia is requested.
LiveResumeOk(a) ==
    /\ hook = "useLiveApi"
    /\ pc[a] = "resume"
    /\ ctxState' = "running"
    /\ pc' = [pc EXCEPT ![a] = "getUserMedia"]
    /\ emitted' = <<>>
    /\ UNCHANGED <<hook, appVars, rtcVars, isConnected, isConnecting, error, closure,
                   mediaStreamRef, inputSourceRef, inputProcessorRef,
                   sessionRef, greetingSentRef, nextScheduledTimeRef,
                   currentTime, stream, inputSource, processor, onaudioprocess,
                   session, abandoned, connectedBy, relCount, sendLog, liveLog,
                   lastSched>>

\* await getUserMedia resolves: capture graph is built, the session is dialled.
LiveGumOk(a) ==
    /\ hook = "useLiveApi"
    /\ pc[a] = "getUserMedia"
    /\ stream' = [stream EXCEPT ![a] = "live"]
    /\ mediaStreamRef' = a
    /\ inputSource' = [inputSource EXCEPT ![a] = "connected"]
    /\ inputSourceRef' = a
    /\ processor' = [processor EXCEPT ![a] = "connected"]
    /\ inputProcessorRef' = a
    /\ nextScheduledTimeRef' = currentTime + ResetLead
    /\ session' = [session EXCEPT ![a] = "dialing"]
    /\ pc' = [pc EXCEPT ![a] = "dial"]
    /\ emitted' = <<>>
    /\ UNCHANGED <<hook, appVars, rtcVars, isConnected, isConnecting, error, closure,
                   ctxState, sessionRef, greetingSentRef, currentTime,
                   onaudioprocess, abandoned, connectedBy, relCount, sendLog, liveLog,
                   lastSched>>

\* A rejected await (resume, getUserMedia or the dial) lands in the catch block.
LiveAwaitRejects(a) ==
    /\ hook = "useLiveApi"
    /\ pc[a] \in LiveAwaits
    /\ pc[a] = "dial" => session[a] = "dialing"
    /\ LiveCatch(a)
    /\ emitted' = <<>>
    /\ UNCHANGED <<hook, appVars, rtcVars, closure, ctxState, greetingSentRef,
                   nextScheduledTimeRef, currentTime, onaudioprocess, sendLog, liveLog,
                   lastSched>>

\* callbacks.onopen of the session attempt a dialled.
LiveOnOpen(a) ==
    /\ hook = "useLiveApi"
    /\ session[a] = "dialing"
    /\ pc[a] = "dial"
    /\ session' = [session EXCEPT ![a] = "open"]
    /\ isConnected' = TRUE
    /\ isConnecting' = FALSE
    /\ connectedBy' = a
    /\ emitted' = <<>>
    /\ UNCHANGED <<hook, appVars, rtcVars, error, closure, pc, ctxState, mediaStreamRef,
                   inputSourceRef, inputProcessorRef, sessionRef,
                   greetingSentRef, nextScheduledTimeRef, currentTime, stream,
                   inputSource, processor, onaudioprocess, abandoned, relCount,
                   sendLog, liveLog, lastSched>>

\* await ai.live.connect resolves: the session is stored, capture is hooked up.
LiveDialResolved(a) ==
    /\ hook = "useLiveApi"
    /\ pc[a] = "dial"
    /\ session[a] \in {"open", "closed"}
    /\ sessionRef' = a
    /\ onaudioprocess' = [onaudioprocess EXCEPT ![a] = TRUE]
    /\ pc' = [pc EXCEPT ![a] = "done"]
    /\ emitted' = <<>>
    /\ UNCHANGED <<hook, appVars, rtcVars, isConnected, isConnecting, error, closure,
                   ctxState, mediaStreamRef, inputSourceRef, inputProcessorRef,
                   greetingSentRef, nextScheduledTimeRef, currentTime, stream,
                   inputSource, processor, session, abandoned, connectedBy,
                   relCount, sendLog, liveLog, lastSched>>

\* callbacks.onclose: the socket closed (by the remote side or after close()).
LiveOnClose(a) ==
    /\ hook = "useLiveApi"
    /\ session[a] \in {"open", "closing"}
    /\ session' = [session EXCEPT ![a] = "closed"]
    /\ isConnected' = FALSE
    /\ connectedBy' = Null
    /\ emitted' = <<>>
    /\ UNCHANGED <<hook, appVars, rtcVars, isConnecting, error, closure, pc, ctxState,
                   mediaStreamRef, inputSourceRef, inputProcessorRef,
                   sessionRef, greetingSentRef, nextScheduledTimeRef,
                   currentTime, stream, inputSource, processor, onaudioprocess,
                   abandoned, relCount, sendLog, liveLog, lastSched>>

\* callbacks.onerror.
LiveOnError(a) ==
    /\ hook = "useLiveApi"
    /\ session[a] \in {"dialing", "open"}
    /\ error' = "session"
    /\ emitted' = <<>>
    /\ UNCHANGED <<hook, appVars, rtcVars, isConnected, isConnecting, closure, pc,
                   ctxState, mediaStreamRef, inputSourceRef, inputProcessorRef,
                   sessionRef, greetingSentRef, nextScheduledTimeRef,
                   currentTime, stream, inputSource, processor, onaudioprocess,
                   session, abandoned, connectedBy, relCount, sendLog, liveLog,
                   lastSched>>

\* processor.onaudioprocess: one captured frame is encoded and handed to the session.
LiveOnAudioProcess(a) ==
    /\ hook = "useLiveApi"
    /\ onaudioprocess[a]
    /\ processor[a] = "connected"
    /\ sendLog' = IF isConnected /\ session[a] = "open"
                  THEN (IF sendLog = "none" THEN "whileConnected" ELSE sendLog)
                  ELSE "whileNotConnected"
    /\ emitted' = <<>>
    /\ UNCHANGED <<hook, appVars, rtcVars, isConnected, isConnecting, error, closure, pc,
                   ctxState, mediaStreamRef, inputSourceRef, inputProcessorRef,
                   sessionRef, greetingSentRef, nextScheduledTimeRef,
                   currentTime, stream, inputSource, processor, onaudioprocess,
                   session, abandoned, connectedBy, relCount, liveLog,
                   lastSched>>

----------------------------------------------------------------------------
\* useOpenAiWebRtc

liveVars == <<mediaStreamRef, inputProcessorRef, sessionRef, greetingSentRef,
              nextScheduledTimeRef, currentTime, stream, processor, onaudioprocess,
              session, sendLog, liveLog, lastSched>>

\* A clearResponseWatchdog that cancels nothing.
ClearedTimersNone == pendingTimers

\* clearResponseWatchdog: the timer the ref names is cancelled.
ClearedTimers == pendingTimers \ {responseWatchdogRef}

\* A startResponseWatchdog that clears and arms nothing.
ArmedTimersNotArming == pendingTimers \ {responseWatchdogRef}

\* A startResponseWatchdog that arms without clearing.
ArmedTimersKeepingOld == pendingTimers \cup {now + WatchdogTimeout}

\* startResponseWatchdog: clear, then arm a timer WatchdogTimeout from now.
ArmedTimers == ClearedTimers \cup {now + WatchdogTimeout}

\* useOpenAiWebRtc.disconnect: TurnState reset, the releases, the state setters.
RtcTeardown ==
    /\ assistantRespondingRef' = FALSE
    /\ lastHandledUserTranscriptRef' = <<>>
    /\ lastAssistantDoneAtRef' = 0
    /\ pendingTimers' = ClearedTimers
    /\ responseWatchdogRef' = Null
    /\ dataChannel' = [a \in Attempts |->
                         IF a \in {dataChannelRef, peerConnectionRef}
                            /\ dataChannel[a] # "none"
                         THEN "closed" ELSE dataChannel[a]]
    /\ dataChannelRef' = Null
    /\ peerConnection' = IF peerConnectionRef # Null
                         THEN [peerConnection EXCEPT ![peerConnectionRef] = "closed"]
                         ELSE peerConnection
    /\ peerConnectionRef' = Null
    /\ audioElement' = IF audioElementRef # Null
                       THEN [audioElement EXCEPT ![audioElementRef] = "detached"]
                       ELSE audioElement
    /\ audioElementRef' = Null
    /\ inputSource' = IF inputSourceRef # Null
                      THEN [inputSource EXCEPT ![inputSourceRef] = "disconnected"]
                      ELSE inputSource
    /\ inputSourceRef' = Null
    /\ outputSource' = IF outputSourceRef # Null
                       THEN [outputSource EXCEPT ![outputSourceRef] = "disconnected"]
                       ELSE outputSource
    /\ outputSourceRef' = Null
    /\ localStream' = IF localStreamRef # Null
                      THEN [localStream EXCEPT ![localStreamRef] = "stopped"]
                      ELSE localStream
    /\ localStreamRef' = Null
    /\ remoteStream' = IF remoteStreamRef # Null
                       THEN [remoteStream EXCEPT ![remoteStreamRef] = "stopped"]
                       ELSE remoteStream
    /\ remoteStreamRef' = Null
    /\ relCount' = Released(Released(Released(Released(Released(Released(Released(
                        relCount, dataChannelRef, "dataChannel"),
                        peerConnectionRef, "peerConnection"),
                        audioElementRef, "audioElement"),
                        inputSourceRef, "inputSource"),
                        outputSourceRef, "outputSource"),
                        localStreamRef, "localStream"),
                        remoteStreamRef, "remoteStream")
    /\ isConnected' = FALSE
    /\ isConnecting' = FALSE
    /\ isMicMuted' = FALSE
    /\ connectedBy' = Null
    /\ prevUser' = NoPrev

RtcDisconnect ==
    /\ hook = "useOpenAiWebRtc"
    /\ RtcTeardown
    /\ abandoned' = Abandon
    /\ emitted' = <<>>
    /\ UNCHANGED <<hook, appVars, liveVars, chanLog, error, closure, pc, ctxState, trackEnabled,
                   now>>

\* The catch block of useOpenAiWebRtc.connect.
RtcCatch(a) ==
    /\ pc' = [pc EXCEPT ![a] = "failed"]
    /\ error' = "connect"
    /\ RtcTeardown
    /\ UNCHANGED abandoned

\* connect(config) up to its first await.
RtcConnect(a) ==
    /\ hook = "useOpenAiWebRtc"
    /\ pc[a] = "idle"
    /\ \A b \in Attempts : b < a => pc[b] # "idle"
    /\ IF closure.isConnected \/ closure.isConnecting
       THEN /\ pc' = [pc EXCEPT ![a] = "returned"]
            /\ UNCHANGED <<isConnecting, error, ctxState, assistantRespondingRef,
                           lastHandledUserTranscriptRef, lastAssistantDoneAtRef,
                           prevUser>>
       ELSE /\ isConnecting' = TRUE
            /\ error' = "none"
            /\ prevUser' = NoPrev
            /\ assistantRespondingRef' = FALSE
            /\ lastHandledUserTranscriptRef' = <<>>
            /\ lastAssistantDoneAtRef' = 0
            /\ \E s \in (IF ctxState = "null" THEN {"suspended", "running"}
                                              ELSE {ctxState}) :
                  /\ ctxState' = s
                  /\ pc' = [pc EXCEPT ![a] = IF s = "suspended" THEN "resume"
                                                               ELSE "token"]
    /\ emitted' = <<>>
    /\ UNCHANGED <<hook, appVars, liveVars, chanLog, isConnected, closure, inputSourceRef,
                   inputSource, isMicMuted, rtcRefs, rtcObjs,
                   responseWatchdogRef, pendingTimers, now, abandoned,
                   connectedBy, relCount>>

\* The await that follows each await that resolves without touching hook state.
RtcNextAwait(p) ==
    CASE p = "resume" -> "token"
      [] p = "tokenJson" -> "getUserMedia"
      [] p = "createOffer" -> "setLocalDescription"
      [] p = "setLocalDescription" -> "sdp"
      [] p = "sdpText" -> "setRemoteDescription"
      [] p = "setRemoteDescription" -> "done"

\* ctx.resume, sessionResp.json, createOffer, setLocalDescription, sdpResponse.text
\* or setRemoteDescription resolves and connect() runs on to its next await.
RtcAwaitOk(a) ==
    /\ hook = "useOpenAiWebRtc"
    /\ pc[a] \in {"resume", "tokenJson", "createOffer", "setLocalDescription",
                  "sdpText", "setRemoteDescription"}
    /\ pc[a] \in {"createOffer", "setLocalDescription", "setRemoteDescription"}
          => peerConnection[a] # "closed"
    /\ pc' = [pc EXCEPT ![a] = RtcNextAwait(pc[a])]
    /\ ctxState' = IF pc[a] = "resume" THEN "running" ELSE ctxState
    /\ emitted' = <<>>
    /\ UNCHANGED <<hook, appVars, liveVars, rtcVars, isConnected, isConnecting, error,
                   closure, inputSourceRef, inputSource, abandoned, connectedBy,
                   relCount>>

\* A fetch (relay token, SDP exchange) resolves with response.ok = ok.
RtcFetchResponds(a, ok) ==
    /\ hook = "useOpenAiWebRtc"
    /\ pc[a] \in {"token", "sdp"}
    /\ pc' = [pc EXCEPT ![a] =
                 IF pc[a] = "token" THEN (IF ok THEN "tokenJson" ELSE "tokenText")
                                    ELSE (IF ok THEN "sdpText" ELSE "sdpErrText")]
    /\ emitted' = <<>>
    /\ UNCHANGED <<hook, appVars, liveVars, rtcVars, isConnected, isConnecting, error,
                   closure, ctxState, inputSourceRef, inputSource, abandoned,
                   connectedBy, relCount>>

\* await getUserMedia resolves: capture graph, peer connection, data channel and
\* remote sink are created and stored, the handlers registered, the offer requested.
RtcGumOk(a) ==
    /\ hook = "useOpenAiWebRtc"
    /\ pc[a] = "getUserMedia"
    /\ localStream' = [localStream EXCEPT ![a] = "live"]
    /\ localStreamRef' = a
    /\ trackEnabled' = [trackEnabled EXCEPT ![a] = TRUE]
    /\ isMicMuted' = FALSE
    /\ inputSource' = [inputSource EXCEPT ![a] = "connected"]
    /\ inputSourceRef' = a
    /\ peerConnection' = [peerConnection EXCEPT ![a] = "new"]
    /\ peerConnectionRef' = a
    /\ dataChannel' = [dataChannel EXCEPT ![a] = "connecting"]
    /\ dataChannelRef' = a
    /\ audioElement' = [audioElement EXCEPT ![a] = "attached"]
    /\ audioElementRef' = a
    /\ remoteStream' = [remoteStream EXCEPT ![a] = "empty"]
    /\ remoteStreamRef' = a
    /\ pc' = [pc EXCEPT ![a] = "createOffer"]
    /\ emitted' = <<>>
    /\ UNCHANGED <<hook, appVars, liveVars, prevUser, chanLog, isConnected, isConnecting, error,
                   closure, ctxState, outputSourceRef, outputSource, turnVars,
                   now, abandoned, connectedBy, relCount>>

\* A rejected await lands in the catch block.
RtcAwaitRejects(a) ==
    /\ hook = "useOpenAiWebRtc"
    /\ pc[a] \in RtcAwaits
    /\ RtcCatch(a)
    /\ emitted' = <<>>
    /\ UNCHANGED <<hook, appVars, liveVars, chanLog, closure, ctxState, trackEnabled, now>>

\* if (!resp.ok) { await resp.text(); throw ... }: the throw lands in the catch block.
RtcNotOkThrows(a) ==
    /\ hook = "useOpenAiWebRtc"
    /\ pc[a] \in {"tokenText", "sdpErrText"}
    /\ RtcCatch(a)
    /\ emitted' = <<>>
    /\ UNCHANGED <<hook, appVars, liveVars, chanLog, closure, ctxState, trackEnabled, now>>

\* The connectionState values the browser can move a peer connection to on its own.
NextConnectionStates(s) ==
    CASE s = "new" -> {"connecting"}
      [] s = "connecting" -> {"connected", "failed"}
      [] s = "connected" -> {"disconnected", "failed"}
      [] s = "disconnected" -> {"connected", "failed"}
      [] OTHER -> {}

\* peerConnection.onconnectionstatechange
RtcOnConnectionStateChange(a, s) ==
    /\ hook = "useOpenAiWebRtc"
    /\ pc[a] = "done"
    /\ s \in NextConnectionStates(peerConnection[a])
    /\ peerConnection' = [peerConnection EXCEPT ![a] = s]
    /\ IF s = "connected"
       THEN /\ isConnected' = TRUE
            /\ isConnecting' = FALSE
            /\ connectedBy' = a
       ELSE IF s \in {"failed", "closed", "disconnected"}
       THEN /\ isConnected' = FALSE
            /\ connectedBy' = Null
            /\ UNCHANGED isConnecting
       ELSE UNCHANGED <<isConnected, isConnecting, connectedBy>>
    /\ emitted' = <<>>
    /\ UNCHANGED <<hook, appVars, liveVars, prevUser, chanLog, error, closure, pc, ctxState,
                   inputSourceRef, inputSource, isMicMuted, rtcRefs,
                   localStream, trackEnabled, remoteStream, audioElement,
                   dataChannel, outputSource, turnVars, now, abandoned,
                   relCount>>

\* peerConnection.ontrack, with ensureRemoteAnalyser; audio: the event's first
\* stream carries an audio track.
RtcOnTrack(a, audio) ==
    /\ hook = "useOpenAiWebRtc"
    /\ pc[a] = "done"
    /\ peerConnection[a] \notin {"none", "closed"}
    /\ remoteStream[a] \in {"empty", "audio"}
    /\ remoteStream' = [remoteStream EXCEPT ![a] = IF audio THEN "audio" ELSE @]
    /\ IF outputSourceRef # Null \/ remoteStream'[a] # "audio"
       THEN UNCHANGED <<outputSourceRef, outputSource, relCount>>
       ELSE /\ outputSourceRef' = a
            /\ outputSource' = [outputSource EXCEPT ![a] = "connected"]
            \* a new source node: nothing has released it yet
            /\ relCount' = [relCount EXCEPT ![a]["outputSource"] = 0]
    /\ emitted' = <<>>
    /\ UNCHANGED <<hook, appVars, liveVars, prevUser, chanLog, isConnected, isConnecting, error,
                   closure, pc, ctxState, inputSourceRef, inputSource,
                   isMicMuted, localStreamRef, remoteStreamRef, audioElementRef,
                   peerConnectionRef, dataChannelRef, localStream, trackEnabled,
                   audioElement, peerConnection, dataChannel, turnVars, now,
                   abandoned, connectedBy>>

\* The two messages of dataChannel.onopen in the other order.
OpenMessagesCreateFirst ==
    <<Out("response.create", <<>>), Out("session.update", <<>>)>>

\* What dataChannel.onopen sends: the session configuration, then the request
\* of the greeting response.
OpenMessages == <<Out("session.update", <<>>), Out("response.create", <<>>)>>

\* dataChannel.onopen: session.update, the greeting response.create, the watchdog.
RtcDataChannelOnOpen(a) ==
    /\ hook = "useOpenAiWebRtc"
    /\ dataChannel[a] = "connecting"
    /\ peerConnection[a] = "connected"
    /\ dataChannel' = [dataChannel EXCEPT ![a] = "open"]
    /\ emitted' = OpenMessages
    /\ chanLog' = [chanLog EXCEPT ![a] = Logged(@, emitted')]
    /\ pendingTimers' = ArmedTimers
    /\ responseWatchdogRef' = now + WatchdogTimeout
    /\ UNCHANGED <<hook, appVars, liveVars, prevUser, isConnected, isConnecting, error, closure, pc,
                   ctxState, inputSourceRef, inputSource, isMicMuted, rtcRefs,
                   localStream, trackEnabled, remoteStream, audioElement,
                   peerConnection, outputSource, assistantRespondingRef,
                   lastHandledUserTranscriptRef, lastAssistantDoneAtRef, now,
                   abandoned, connectedBy, relCount>>

\* dataChannel.onerror
RtcDataChannelOnError(a) ==
    /\ hook = "useOpenAiWebRtc"
    /\ dataChannel[a] \in {"connecting", "open"}
    /\ error' = "dataChannel"
    /\ emitted' = <<>>
    /\ UNCHANGED <<hook, appVars, liveVars, rtcVars, isConnected, isConnecting, closure,
                   pc, ctxState, inputSourceRef, inputSource, abandoned,
                   connectedBy, relCount>>

\* The channel closes under a failed transport (no onclose handler is registered).
RtcDataChannelCloses(a) ==
    /\ hook = "useOpenAiWebRtc"
    /\ dataChannel[a] \in {"connecting", "open"}
    /\ peerConnection[a] = "failed"
    /\ dataChannel' = [dataChannel EXCEPT ![a] = "closed"]
    /\ emitted' = <<>>
    /\ UNCHANGED <<hook, appVars, liveVars, prevUser, chanLog, isConnected, isConnecting, error,
                   closure, pc, ctxState, inputSourceRef, inputSource,
                   isMicMuted, rtcRefs, localStream, trackEnabled, remoteStream,
                   audioElement, peerConnection, outputSource, turnVars, now,
                   abandoned, connectedBy, relCount>>

----------------------------------------------------------------------------
\* Inbound messages, clocks and timers.

\* What a LiveServerMessage may carry: setupComplete, an output and an input
\* transcription text (empty: absent), and inline audio of a duration (0: none).
LiveMessages ==
    [setupComplete : BOOLEAN, outputText : {<<>>, <<"a">>},
     inputText : {<<>>, <<"a">>}, audio : 0..MaxDuration]

\* A message of no recognized shape: none of the fields the handler reads.
EmptyMessage ==
    [setupComplete |-> FALSE, outputText |-> <<>>, inputText |-> <<>>, audio |-> 0]

\* A message that carries nothing but inline audio of duration d.
AudioMessage(d) ==
    [setupComplete |-> FALSE, outputText |-> <<>>, inputText |-> <<>>, audio |-> d]

\* const start = Math.max(now, nextScheduledTimeRef.current)
ScheduleStart(clock, next) == Max(clock, next)

\* callbacks.onmessage of the session attempt a dialled.
LiveOnMessage(a, msg) ==
    /\ hook = "useLiveApi"
    /\ session[a] = "open"
    /\ pc[a] = "done"
    /\ LET greet == msg.setupComplete /\ ~greetingSentRef
           start == ScheduleStart(currentTime, nextScheduledTimeRef)
       IN  /\ greetingSentRef' = (greetingSentRef \/ greet)
           /\ liveLog' = [liveLog EXCEPT
                 ![a] = [setup |-> @.setup \/ msg.setupComplete,
                         sent |-> IF greet THEN Min(@.sent + 1, 2) ELSE @.sent,
                         ignored |-> @.ignored \/ msg = EmptyMessage]]
           /\ emitted' =
                 (IF greet THEN <<Out("sendClientContent", <<>>)>> ELSE <<>>)
                 \o (IF msg.outputText # <<>>
                     THEN <<Out("onAgentTranscript", msg.outputText)>> ELSE <<>>)
                 \o (IF msg.inputText # <<>>
                     THEN <<Out("onUserTranscript", msg.inputText)>> ELSE <<>>)
           /\ IF msg.audio > 0
              THEN /\ start + msg.audio <= MaxTimeline
                   /\ nextScheduledTimeRef' = start + msg.audio
                   /\ lastSched' = [n |-> Min(lastSched.n + 1, 2),
                                    start |-> start, end |-> start + msg.audio,
                                    clock |-> currentTime,
                                    prevStart |-> lastSched.start,
                                    prevEnd |-> lastSched.end]
              ELSE UNCHANGED <<nextScheduledTimeRef, lastSched>>
    /\ UNCHANGED <<hook, appVars, isConnected, isConnecting, error, closure, pc, ctxState,
                   mediaStreamRef, inputSourceRef, inputProcessorRef, sessionRef,
                   currentTime, stream, inputSource, processor, onaudioprocess,
                   session, isMicMuted, rtcRefs, rtcObjs, turnVars, now, prevUser, chanLog,
                   abandoned, connectedBy, relCount, sendLog>>

\* The playback clock of a running audio context advances.
ClockTick ==
    /\ hook = "useLiveApi"
    /\ ctxState = "running"
    /\ currentTime < MaxClock
    /\ currentTime' = currentTime + 1
    /\ emitted' = <<>>
    /\ UNCHANGED <<hook, appVars, rtcVars, isConnected, isConnecting, error, closure, pc,
                   ctxState, mediaStreamRef, inputSourceRef, inputProcessorRef,
                   sessionRef, greetingSentRef, nextScheduledTimeRef, stream,
                   inputSource, processor, onaudioprocess, session, abandoned,
                   connectedBy, relCount, sendLog, liveLog, lastSched>>

UserCompleted == "conversation.item.input_audio_transcription.completed"

\* event.data that JSON.parse rejects.
NotJson == "(not JSON)"

\* The data-channel payloads: the type and the transcript/delta text it carries.
Payloads ==
    {[type |-> UserCompleted, text |-> t] : t \in TextsUpTo(MaxTextLen)}
    \cup {[type |-> "response.audio_transcript.delta", text |-> t] :
             t \in {<<>>, <<"a">>}}
    \cup {[type |-> t, text |-> <<>>] :
             t \in {"response.audio_transcript.done", "response.created",
                    "response.done", "response.error",
                    "response.output_item.done", "session.created", NotJson}}

\* event.data "null": JSON.parse returns null and reading payload.type throws.
JsonNull == "null"

\* Every payload the model delivers.
AnyPayloads == Payloads \cup {[type |-> JsonNull, text |-> <<>>]}

\* The payloads that are malformed or of no shape the handler recognizes: not
\* JSON, not an object, a type it has no branch for, a transcript or delta event
\* without its text.
Unrecognized ==
    {p \in AnyPayloads :
        \/ p.type \in {NotJson, JsonNull, "session.created"}
        \/ /\ p.type \in {UserCompleted, "response.audio_transcript.delta"}
           /\ p.text = <<>>}

\* The completion types, and a type the handler has no branch for.
DoneTypesAndSessionCreated ==
    {"response.done", "response.error", "response.output_item.done",
     "session.created"}

\* The event types that end the assistant's response.
DoneTypes == {"response.done", "response.error", "response.output_item.done"}

\* The checks without the suppression window.
UserTranscriptAcceptedNoWindow(text) ==
    /\ text # <<>>
    /\ Trim(text) # <<>>
    /\ ToLowerCase(Trim(text)) # lastHandledUserTranscriptRef

\* The checks without the comparison with the last handled transcript.
UserTranscriptAcceptedNoDedup(text) ==
    /\ text # <<>>
    /\ Trim(text) # <<>>
    /\ ~(now - lastAssistantDoneAtRef < SuppressionWindow)

\* The checks a completed user transcript passes to be handled: non-empty after
\* trim, not the last handled one, not inside the suppression window.
UserTranscriptAccepted(text) ==
    /\ text # <<>>
    /\ Trim(text) # <<>>
    /\ ToLowerCase(Trim(text)) # lastHandledUserTranscriptRef
    /\ ~(now - lastAssistantDoneAtRef < SuppressionWindow)

\* dataChannel.onmessage of the channel attempt a created.
RtcDataChannelOnMessage(a, payload) ==
    /\ hook = "useOpenAiWebRtc"
    /\ dataChannel[a] = "open"
    /\ LET user == payload.type = UserCompleted /\ payload.text # <<>>
           accepted == user /\ UserTranscriptAccepted(payload.text)
           requests == accepted /\ ~assistantRespondingRef
                                /\ dataChannel[a] = "open"
           delta == ~user /\ payload.type = "response.audio_transcript.delta"
                          /\ payload.text # <<>>
           created == ~user /\ payload.type = "response.created"
           done == ~user /\ payload.type \in DoneTypes
       IN  /\ lastHandledUserTranscriptRef' =
                 IF accepted THEN ToLowerCase(Trim(payload.text))
                             ELSE lastHandledUserTranscriptRef
           /\ assistantRespondingRef' =
                 IF requests \/ created THEN TRUE
                 ELSE IF done THEN FALSE ELSE assistantRespondingRef
           /\ lastAssistantDoneAtRef' =
                 IF done THEN now ELSE lastAssistantDoneAtRef
           /\ pendingTimers' =
                 IF requests \/ created THEN ArmedTimers
                 ELSE IF done THEN ClearedTimers ELSE pendingTimers
           /\ responseWatchdogRef' =
                 IF requests \/ created THEN now + WatchdogTimeout
                 ELSE IF done THEN Null ELSE responseWatchdogRef
           /\ emitted' =
                 (IF accepted THEN <<Out("onUserTranscript", Trim(payload.text))>>
                              ELSE <<>>)
                 \o (IF requests THEN <<Out("response.create", <<>>)>> ELSE <<>>)
                 \o (IF delta THEN <<Out("onAgentTranscript", payload.text)>>
                              ELSE <<>>)
           /\ chanLog' = [chanLog EXCEPT ![a] = Logged(@, emitted')]
           /\ prevUser' =
                 IF payload.type = UserCompleted
                 THEN [seen |-> TRUE, norm |-> ToLowerCase(Trim(payload.text)),
                       silent |-> emitted' = <<>>,
                       same |-> prevUser.seen
                                /\ prevUser.norm = ToLowerCase(Trim(payload.text)),
                       dup |-> prevUser.seen /\ ~prevUser.silent
                               /\ prevUser.norm = ToLowerCase(Trim(payload.text))]
                 ELSE prevUser
    /\ UNCHANGED <<hook, appVars, liveVars, isConnected, isConnecting, error, closure, pc,
                   ctxState, inputSourceRef, inputSource, isMicMuted, rtcRefs,
                   rtcObjs, now, abandoned, connectedBy, relCount>>

\* Date.now() never runs past MaxNow in a behaviour.
MaxNow == StartNow + WatchdogTimeout + MaxTicks * TickStep

\* Time passes: by one step (at most MaxTicks in a row), or by a whole watchdog
\* timeout.
Tick(d) ==
    /\ hook = "useOpenAiWebRtc"
    /\ d \in {TickStep, WatchdogTimeout}
    /\ now + d <= MaxNow
    /\ d = TickStep => (now - StartNow) % WatchdogTimeout < MaxTicks * TickStep
    /\ now' = now + d
    /\ emitted' = <<>>
    /\ UNCHANGED <<hook, appVars, liveVars, isConnected, isConnecting, error, closure,
                   pc, ctxState, inputSourceRef, inputSource, isMicMuted,
                   rtcRefs, rtcObjs, turnVars, prevUser, chanLog, abandoned, connectedBy,
                   relCount>>

\* A watchdog whose callback clears the flag and records no turn-end time.
WatchdogFiresNoStamp(t) ==
    /\ hook = "useOpenAiWebRtc"
    /\ t \in pendingTimers
    /\ now >= t
    /\ pendingTimers' = pendingTimers \ {t}
    /\ assistantRespondingRef' = FALSE
    /\ emitted' = <<>>
    /\ UNCHANGED <<hook, appVars, liveVars, isConnected, isConnecting, error, closure,
                   pc, ctxState, inputSourceRef, inputSource, isMicMuted,
                   rtcRefs, rtcObjs, lastHandledUserTranscriptRef,
                   lastAssistantDoneAtRef,
                   responseWatchdogRef, now, prevUser, chanLog, abandoned, connectedBy,
                   relCount>>

\* A watchdog whose callback runs before its timeout has elapsed.
WatchdogFiresEarly(t) ==
    /\ hook = "useOpenAiWebRtc"
    /\ t \in pendingTimers
    /\ pendingTimers' = pendingTimers \ {t}
    /\ assistantRespondingRef' = FALSE
    /\ lastAssistantDoneAtRef' = now
    /\ emitted' = <<>>
    /\ UNCHANGED <<hook, appVars, liveVars, isConnected, isConnecting, error, closure,
                   pc, ctxState, inputSourceRef, inputSource, isMicMuted,
                   rtcRefs, rtcObjs, lastHandledUserTranscriptRef,
                   responseWatchdogRef, now, prevUser, chanLog, abandoned, connectedBy,
                   relCount>>

\* The callback startResponseWatchdog handed to window.setTimeout runs.
WatchdogFires(t) ==
    /\ hook = "useOpenAiWebRtc"
    /\ t \in pendingTimers
    /\ now >= t
    /\ pendingTimers' = pendingTimers \ {t}
    /\ assistantRespondingRef' = FALSE
    /\ lastAssistantDoneAtRef' = now
    /\ emitted' = <<>>
    /\ UNCHANGED <<hook, appVars, liveVars, isConnected, isConnecting, error, closure,
                   pc, ctxState, inputSourceRef, inputSource, isMicMuted,
                   rtcRefs, rtcObjs, lastHandledUserTranscriptRef,
                   responseWatchdogRef, now, prevUser, chanLog, abandoned, connectedBy,
                   relCount>>

----------------------------------------------------------------------------
Next ==
    \/ Render
    \/ LiveDisconnect
    \/ RtcDisconnect
    \/ \E a \in Attempts :
          \/ LiveConnect(a)
          \/ LiveResumeOk(a)
          \/ LiveGumOk(a)
          \/ LiveAwaitRejects(a)
          \/ LiveOnOpen(a)
          \/ LiveDialResolved(a)
          \/ LiveOnClose(a)
          \/ LiveOnError(a)
          \/ LiveOnAudioProcess(a)
          \/ RtcConnect(a)
          \/ RtcAwaitOk(a)
          \/ \E ok \in BOOLEAN : RtcFetchResponds(a, ok)
          \/ RtcGumOk(a)
          \/ RtcAwaitRejects(a)
          \/ RtcNotOkThrows(a)
          \/ \E s \in {"connecting", "connected", "disconnected", "failed"} :
                RtcOnConnectionStateChange(a, s)
          \/ \E audio \in BOOLEAN : RtcOnTrack(a, audio)
          \/ RtcDataChannelOnOpen(a)
          \/ RtcDataChannelOnError(a)
          \/ RtcDataChannelCloses(a)

Spec == Init /\ [][Next]_vars

\* The component has rendered the flags as they stand.
Rendered == closure = [isConnected |-> isConnected, isConnecting |-> isConnecting,
                       isMicMuted |-> isMicMuted]

\* The playback timeline of useLiveApi: sessions that connect without a
\* failure, on a connect() made after the last render, their audio messages,
\* and the playback clock.
InitLive == Init /\ hook = "useLiveApi"

NextSched ==
    \/ Render
    \/ LiveDisconnect
    \/ ClockTick
    \/ \E a \in Attempts :
          \/ LiveConnect(a) /\ Rendered
          \/ LiveResumeOk(a)
          \/ LiveGumOk(a)
          \/ LiveOnOpen(a)
          \/ LiveDialResolved(a)
          \/ LiveOnClose(a)
          \/ \E d \in 1..MaxDuration : LiveOnMessage(a, AudioMessage(d))

SpecSched == InitLive /\ [][NextSched]_vars

\* Turn taking of useOpenAiWebRtc within the watchdog timeout: sessions that
\* connect without a failure, on a connect() made after the last render, the
\* events on their data channel, and time.
InitRtc == Init /\ hook = "useOpenAiWebRtc"

NextTurn ==
    \/ Render
    \/ RtcDisconnect
    \/ Tick(TickStep)
    \/ \E a \in Attempts :
          \/ RtcConnect(a) /\ Rendered
          \/ RtcAwaitOk(a)
          \/ RtcFetchResponds(a, TRUE)
          \/ RtcGumOk(a)
          \/ RtcOnConnectionStateChange(a, "connecting")
          \/ RtcOnConnectionStateChange(a, "connected")
          \/ RtcDataChannelOnOpen(a)
          \/ \E payload \in Payloads : RtcDataChannelOnMessage(a, payload)

SpecTurn == InitRtc /\ [][NextTurn]_vars

\* One session of either hook from connect() to disconnect(), without a
\* failure: every inbound message and event, the clocks and the watchdog.
NextEvents ==
    \/ Render
    \/ LiveDisconnect
    \/ RtcDisconnect
    \/ ClockTick
    \/ Tick(TickStep)
    \/ Tick(WatchdogTimeout)
    \/ \E t \in pendingTimers : WatchdogFires(t)
    \/ LiveConnect(1)
    \/ LiveResumeOk(1)
    \/ LiveGumOk(1)
    \/ LiveOnOpen(1)
    \/ LiveDialResolved(1)
    \/ LiveOnClose(1)
    \/ \E msg \in LiveMessages : LiveOnMessage(1, msg)
    \/ RtcConnect(1)
    \/ RtcAwaitOk(1)
    \/ RtcFetchResponds(1, TRUE)
    \/ RtcGumOk(1)
    \/ RtcOnConnectionStateChange(1, "connecting")
    \/ RtcOnConnectionStateChange(1, "connected")
    \/ RtcDataChannelOnOpen(1)
    \/ \E payload \in AnyPayloads : RtcDataChannelOnMessage(1, payload)

SpecEvents == Init /\ [][NextEvents]_vars

\* What runs without the caller: renders, promise continuations, callbacks.
Internal ==
    \/ Render
    \/ \E a \in Attempts :
          \/ LiveResumeOk(a)
          \/ LiveGumOk(a)
          \/ LiveAwaitRejects(a)
          \/ LiveOnOpen(a)
          \/ LiveDialResolved(a)
          \/ LiveOnClose(a)
          \/ LiveOnError(a)
          \/ LiveOnAudioProcess(a)
          \/ RtcAwaitOk(a)
          \/ \E ok \in BOOLEAN : RtcFetchResponds(a, ok)
          \/ RtcGumOk(a)
          \/ RtcAwaitRejects(a)
          \/ RtcNotOkThrows(a)
          \/ \E s \in {"connecting", "connected", "disconnected", "failed"} :
                RtcOnConnectionStateChange(a, s)
          \/ \E audio \in BOOLEAN : RtcOnTrack(a, audio)
          \/ RtcDataChannelOnOpen(a)
          \/ RtcDataChannelOnError(a)
          \/ RtcDataChannelCloses(a)

\* The event loop keeps running: whatever can run without the caller eventually
\* does.  The caller is never obliged to call connect() or disconnect().
FairSpec == Spec /\ WF_vars(Internal)

----------------------------------------------------------------------------
\* Vocabulary of the properties.

\* The hook's own state: everything but the history variables.
progVars == <<hook, isConnected, isConnecting, error, closure, pc, ctxState,
              mediaStreamRef, inputSourceRef, inputProcessorRef, sessionRef,
              greetingSentRef, nextScheduledTimeRef, currentTime, stream,
              inputSource, processor, onaudioprocess, session, isMicMuted,
              rtcRefs, rtcObjs, turnVars, now>>

\* Invocation a of connect() is made in this step.
ConnectCalled(a) == pc[a] = "idle" /\ pc'[a] # "idle"

\* Invocation a of connect() enters its catch block in this step.
CatchRan(a) == pc[a] # "failed" /\ pc'[a] = "failed"

\* The caller runs disconnect() in this step.
DisconnectCalled == LiveDisconnect \/ RtcDisconnect

\* No handle names an object of attempt a.
NoHandleOf(a) ==
    /\ mediaStreamRef # a /\ inputSourceRef # a /\ inputProcessorRef # a
    /\ sessionRef # a /\ localStreamRef # a /\ remoteStreamRef # a
    /\ audioElementRef # a /\ peerConnectionRef # a /\ dataChannelRef # a
    /\ outputSourceRef # a

\* No object attempt a acquired is still live.
NoLiveObjectOf(a) ==
    /\ stream[a] # "live" /\ inputSource[a] # "connected"
    /\ processor[a] # "connected" /\ session[a] \notin {"dialing", "open"}
    /\ localStream[a] # "live" /\ remoteStream[a] \notin {"empty", "audio"}
    /\ audioElement[a] # "attached" /\ peerConnection[a] \in {"none", "closed"}
    /\ dataChannel[a] \in {"none", "closed"} /\ outputSource[a] # "connected"

\* The state disconnect() leaves: every handle null, flags false, TurnState empty.
TornDown ==
    /\ \A a \in Attempts : NoHandleOf(a)
    /\ ~isConnected /\ ~isConnecting /\ ~isMicMuted
    /\ ~assistantRespondingRef /\ lastHandledUserTranscriptRef = <<>>
    /\ lastAssistantDoneAtRef = 0 /\ responseWatchdogRef = Null

\* The handle that holds objects of kind k.
HandleOf(k) ==
    CASE k = "stream" -> mediaStreamRef
      [] k = "inputSource" -> inputSourceRef
      [] k = "processor" -> inputProcessorRef
      [] k = "session" -> sessionRef
      [] k = "localStream" -> localStreamRef
      [] k = "remoteStream" -> remoteStreamRef
      [] k = "audioElement" -> audioElementRef
      [] k = "peerConnection" -> peerConnectionRef
      [] k = "dataChannel" -> dataChannelRef
      [] k = "outputSource" -> outputSourceRef

----------------------------------------------------------------------------
\* C1: a connect() made while the session is Connecting or Connected returns
\* at once: it starts no attempt and changes nothing of the hook's state, also
\* when it is issued before the previous connect()'s state update was rendered.
C1_ConnectWhileBusyIsNoOp ==
    [][\A a \in Attempts :
          (ConnectCalled(a) /\ (isConnected \/ isConnecting))
             => /\ pc'[a] = "returned"
                /\ UNCHANGED <<isConnected, isConnecting, error, ctxState,
                               greetingSentRef, turnVars, rtcRefs, rtcObjs,
                               mediaStreamRef, inputSourceRef, inputProcessorRef,
                               sessionRef, stream, inputSource, processor,
                               session>>]_vars

\* C2: a connect() that was suspended at an await when disconnect() ran applies
\* nothing when it resumes: no handle names one of its objects, its capture
\* handler is not registered, and isConnected is not true through its session.
C2_AbandonedConnectAppliesNothing ==
    \A a \in Attempts :
        abandoned[a] => NoHandleOf(a) /\ ~onaudioprocess[a] /\ connectedBy # a

\* C3: when a step of connect() fails, the catch block leaves the session Idle
\* with an error set and every object the attempt had acquired released.
C3_FailureRollsBack ==
    [][\A a \in Attempts :
          CatchRan(a) => /\ ~isConnected' /\ ~isConnecting'
                         /\ error' # "none"
                         /\ NoLiveObjectOf(a)']_vars

C5_ConnectedOnlyByActiveTransportSignal ==
    [][(~isConnected /\ isConnected') =>
          \E a \in Attempts :
             /\ LiveOnOpen(a) \/ RtcOnConnectionStateChange(a, "connected")
             /\ ~abandoned[a]]_vars

\* C6: a chunk is handed to sendRealtimeInput only while the session is
\* Connected (isConnected and the socket open).
C6_SendOnlyWhileConnected == sendLog # "whileNotConnected"

\* The transport of attempt a broke without the caller closing it.
TransportBroke(a) ==
    \/ peerConnection[a] = "failed"
    \/ session[a] = "closed" /\ pc[a] \in {"dial", "done"}
                             /\ relCount[a]["session"] = 0

\* C7: after an error while Connecting or Connected (the peer connection
\* failed, the live session was closed by the remote side) the session
\* eventually is Idle with the attempt's objects released.
C7_ErrorEventuallyIdle ==
    \A a \in Attempts :
        TransportBroke(a) ~>
            (~isConnected /\ ~isConnecting /\ NoLiveObjectOf(a))

\* C8: every error of an established session (session onerror, data-channel
\* error, peer connection failed/closed/disconnected) sets isConnected false and
\* error non-null, and starts no attempt.
C8_SessionErrorFlipsFlagAndSetsError ==
    [][\A a \in Attempts :
          (isConnected /\ connectedBy = a
             /\ (\/ LiveOnError(a)
                 \/ RtcDataChannelOnError(a)
                 \/ \E s \in {"failed", "closed", "disconnected"} :
                       RtcOnConnectionStateChange(a, s)))
             => ~isConnected' /\ error' # "none" /\ pc' = pc]_vars

\* C9: the payloads are scheduled in arrival order without overlap: each start
\* is at or after the previous payload's start and end, and at or after the
\* playback clock read when it was scheduled.
C9_StartsOrderedNoOverlap ==
    /\ lastSched.n >= 1 => lastSched.start >= lastSched.clock
    /\ lastSched.n >= 2 => /\ lastSched.start >= lastSched.prevStart
                           /\ lastSched.start >= lastSched.prevEnd

\* C10 (as stated): a completed user-transcript event whose normalized text is
\* that of the completed user-transcript event before it produces no callback
\* and no response request.
C10_SecondIdenticalTranscriptDropped == prevUser.same => prevUser.silent

\* C10 (amended): a completed user-transcript event whose normalized text is
\* that of the completed user-transcript event before it produces no callback
\* and no response request, when that earlier event was forwarded and neither
\* connect() nor disconnect() reset the dedup memory in between.
C10_DuplicateOfForwardedDropped == prevUser.dup => prevUser.silent

\* C10 witness: the last completed user transcript repeated the forwarded one
\* before it, in another letter case, and was dropped.
C10_Witness ==
    /\ prevUser.dup /\ prevUser.norm = <<"a">> /\ prevUser.silent
    /\ lastHandledUserTranscriptRef = <<"a">>
    /\ emitted = <<>>

\* The handler's outputs out contain e.
Emits(e, out) == \E i \in DOMAIN out : out[i] = e

\* This step handles a completed user-transcript event p with a non-blank
\* transcript on channel a.
UserTranscriptStep(a, p) ==
    /\ p.type = UserCompleted
    /\ Trim(p.text) # <<>>
    /\ RtcDataChannelOnMessage(a, p)

\* The event handled now arrives inside the suppression window.
InsideWindow == now - lastAssistantDoneAtRef < SuppressionWindow

\* C11 (as stated): a completed user transcript that arrives less than the
\* suppression window after the last recorded agent-turn-end produces no
\* callback and no request; one that arrives later is forwarded to
\* onUserTranscript.
C11_WindowDropsElseForwards ==
    [][\A a \in Attempts, p \in AnyPayloads :
          UserTranscriptStep(a, p) =>
             IF InsideWindow
             THEN emitted' = <<>>
             ELSE Emits(Out("onUserTranscript", Trim(p.text)), emitted')]_vars

\* C11 (amended): a completed user transcript that arrives less than the
\* suppression window after the last recorded agent-turn-end produces no
\* callback and no request; one that arrives later and whose normalized text
\* is not the last handled one is forwarded to onUserTranscript.
C11_WindowDropsElseForwardsNew ==
    [][\A a \in Attempts, p \in AnyPayloads :
          UserTranscriptStep(a, p) =>
             IF InsideWindow
             THEN emitted' = <<>>
             ELSE ToLowerCase(Trim(p.text)) # lastHandledUserTranscriptRef
                     => Emits(Out("onUserTranscript", Trim(p.text)), emitted')]_vars

\* C11 witness: a transcript was forwarded once the window after a recorded
\* agent-turn-end had elapsed, after an earlier one was dropped inside it.
C11_Witness ==
    /\ lastAssistantDoneAtRef # 0
    /\ now - lastAssistantDoneAtRef >= SuppressionWindow
    /\ prevUser.seen /\ ~prevUser.silent /\ prevUser.same
    /\ \E e \in {emitted[i] : i \in DOMAIN emitted} : e.kind = "onUserTranscript"

\* The watchdog armed last has run, and nothing has armed or cleared one since.
WatchdogFired ==
    responseWatchdogRef # Null /\ responseWatchdogRef \notin pendingTimers

\* C12: when the watchdog runs, WatchdogTimeout after it was armed with no
\* completion event in between, it clears the responding flag; and a completed
\* user transcript that arrives after that point (non-blank, not the last
\* handled one) is forwarded and requests a response.
C12_WatchdogLetsUserTurnThrough ==
    [][/\ \A t \in pendingTimers : WatchdogFires(t) => ~assistantRespondingRef'
       /\ \A a \in Attempts, p \in AnyPayloads :
             (/\ UserTranscriptStep(a, p)
              /\ WatchdogFired
              /\ ToLowerCase(Trim(p.text)) # lastHandledUserTranscriptRef)
                => Emits(Out("response.create", <<>>), emitted')]_vars

\* The messages of a session that is being set up: setupComplete, with or
\* without a transcript of the agent.
SetupMessages ==
    {m \in LiveMessages : m.setupComplete /\ m.inputText = <<>> /\ m.audio = 0}

\* The greeting of useLiveApi: connect() and disconnect() in any interleaving
\* the caller can produce, without a failure, and the sessions' setupComplete
\* messages.
NextGreet ==
    \/ Render
    \/ LiveDisconnect
    \/ \E a \in Attempts :
          \/ LiveConnect(a)
          \/ LiveResumeOk(a)
          \/ LiveGumOk(a)
          \/ LiveOnOpen(a)
          \/ LiveDialResolved(a)
          \/ LiveOnClose(a)
          \/ \E msg \in SetupMessages : LiveOnMessage(a, msg)

SpecGreet == InitLive /\ [][NextGreet]_vars

\* C13: in each session of useLiveApi the greeting turn is sent exactly once,
\* on the first message carrying setupComplete: never a second time, and never
\* before a setupComplete was received.
C13_GreetingOncePerSession ==
    \A a \in Attempts :
        /\ liveLog[a].sent <= 1
        /\ liveLog[a].setup <=> liveLog[a].sent = 1

\* C14: when the data channel opens the client sends exactly one
\* session.update and, right after it and before any other control message,
\* one response.create; no response.create is sent on a channel before its
\* session.update, and no channel gets a second session.update.
C14_OpenSendsUpdateThenCreate ==
    \A a \in Attempts :
        /\ chanLog[a].updates <= 1
        /\ chanLog[a].first \in {<<>>, <<"session.update", "response.create">>}
        /\ dataChannel[a] = "open" =>
              /\ chanLog[a].updates = 1
              /\ chanLog[a].first = <<"session.update", "response.create">>

\* C14 witness: the data channel has just opened and the two messages were
\* sent in this order.
C14_Witness ==
    /\ \E a \in Attempts : dataChannel[a] = "open" /\ chanLog[a].updates = 1
    /\ emitted = <<Out("session.update", <<>>), Out("response.create", <<>>)>>

\* Invocation a of connect() has its getUserMedia rejected in this step.
MicrophoneDenied(a) == pc[a] = "getUserMedia" /\ CatchRan(a)

\* C15: when getUserMedia rejects, the session is Idle after the catch block
\* with the error set, no stream, track or node handle is stored, no captured
\* stream is live, and no live session, peer connection or data channel is open.
C15_MicrophoneDeniedLeavesIdle ==
    [][\A a \in Attempts :
          MicrophoneDenied(a) =>
             /\ ~isConnected' /\ ~isConnecting'
             /\ error' = "connect"
             /\ \A b \in Attempts : NoHandleOf(b)' /\ NoLiveObjectOf(b)']_vars

\* C16: an inbound message that is not JSON or of no recognized shape or type
\* is dropped: the hook's state (flags, error, TurnState, watchdog, transports)
\* is unchanged, no callback runs and nothing is sent.
C16_UnrecognizedMessageDropped ==
    [][\A a \in Attempts :
          /\ \A p \in Unrecognized :
                RtcDataChannelOnMessage(a, p) =>
                   UNCHANGED progVars /\ emitted' = <<>>
          /\ LiveOnMessage(a, EmptyMessage) =>
                UNCHANGED progVars /\ emitted' = <<>>]_vars

\* C16 witness: a connected session has received a message of no recognized
\* shape.
C16_Witness ==
    \E a \in Attempts :
        /\ liveLog[a].ignored
        /\ isConnected /\ session[a] = "open" /\ error = "none"
        /\ emitted = <<>>

\* The kinds of the outputs of this step.
EmittedKinds == {emitted'[i].kind : i \in DOMAIN emitted'}

\* The classes of handling the live onmessage runs in this step: the greeting
\* trigger, a transcript callback of either speaker, the scheduling of audio.
LiveHandled ==
    (EmittedKinds \cap {"sendClientContent", "onAgentTranscript", "onUserTranscript"})
    \cup (IF nextScheduledTimeRef' # nextScheduledTimeRef THEN {"audio"} ELSE {})

\* The classes of handling dataChannel.onmessage runs in this step for payload
\* p: a transcript callback of either speaker, the response lifecycle.
RtcHandled(p) ==
    (EmittedKinds \cap {"onAgentTranscript", "onUserTranscript"})
    \cup (IF p.type \in DoneTypes \cup {"response.created"} /\ turnVars' # turnVars
          THEN {"lifecycle"} ELSE {})

\* C17: every inbound message is handled as exactly one class: no message
\* triggers the handling of two (a transcript callback and audio scheduling,
\* the greeting trigger and a transcript callback, two transcript callbacks).
C17_OneClassPerMessage ==
    [][\A a \in Attempts :
          /\ \A msg \in LiveMessages :
                LiveOnMessage(a, msg) => Cardinality(LiveHandled) <= 1
          /\ \A p \in AnyPayloads :
                RtcDataChannelOnMessage(a, p) => Cardinality(RtcHandled(p)) <= 1]_vars

\* TurnState is empty: the flag false, no transcript remembered, no turn end
\* recorded, no watchdog timer pending.
TurnStateEmpty ==
    /\ ~assistantRespondingRef
    /\ lastHandledUserTranscriptRef = <<>>
    /\ lastAssistantDoneAtRef = 0
    /\ pendingTimers = {}

\* C18: right after a connect() that passes its guard, and right after
\* disconnect(), TurnState is empty: the responding flag is false, the last
\* transcript empty, the last turn-end time 0, and no watchdog timer armed by
\* an earlier session is still pending.
C18_TurnStateResetByConnectAndDisconnect ==
    [][(\/ \E a \in Attempts : RtcConnect(a) /\ pc'[a] # "returned"
        \/ RtcDisconnect)
          => TurnStateEmpty']_vars

\* The order in which useLiveApi.connect acquires its objects, and the order
\* in which useLiveApi.disconnect releases them.
LiveAcquisitionOrder == <<"stream", "inputSource", "processor", "session">>
LiveReleaseOrder == <<"session", "processor", "inputSource", "stream">>

\* The order in which useOpenAiWebRtc.connect (with ensureRemoteAnalyser)
\* acquires its objects, and the order in which useOpenAiWebRtc.disconnect
\* releases them.
RtcAcquisitionOrder ==
    <<"localStream", "inputSource", "peerConnection", "dataChannel",
      "audioElement", "remoteStream", "outputSource">>
RtcReleaseOrder ==
    <<"dataChannel", "peerConnection", "audioElement", "inputSource",
      "outputSource", "localStream", "remoteStream">>

Reverse(s) == [i \in 1..Len(s) |-> s[Len(s) + 1 - i]]

\* The kinds of order, in that order, whose handle names an object now: what
\* the session has acquired and disconnect() finds to release.
HeldIn(order) == SelectSeq(order, LAMBDA k : HandleOf(k) # Null)

\* C19: disconnect() releases the objects the session holds in the reverse of
\* the order in which connect() acquired them, in both hooks.
C19_ReleaseReversesAcquisition ==
    [][/\ LiveDisconnect =>
             HeldIn(LiveReleaseOrder) = Reverse(HeldIn(LiveAcquisitionOrder))
       /\ RtcDisconnect =>
             HeldIn(RtcReleaseOrder) = Reverse(HeldIn(RtcAcquisitionOrder))]_vars

\* Invocation a of connect() has asked the relay for the credential and not
\* yet read the answer.
CredentialRequested(a) == pc[a] \in {"token", "tokenText", "tokenJson"}

\* C20: connect() acquires the microphone before it exchanges the credential
\* with the relay (useOpenAiWebRtc) or dials the endpoint (useLiveApi): while
\* the credential request or the dial is under way the invocation already has
\* its captured stream.
C20_MicrophoneBeforeCredential ==
    \A a \in Attempts :
        /\ CredentialRequested(a) => localStream[a] # "none"
        /\ pc[a] = "dial" => stream[a] # "none"

----------------------------------------------------------------------------
\* The PCM16 conversions of useLiveApi: Float32 to Int16 in onaudioprocess,
\* Int16 to Float32 in onmessage.

\* Samples are multiples of 1 / SampleDen, from -2.0 to 2.0.
SampleDen == 48
MaxSample == 2 * SampleDen
Samples == -MaxSample..MaxSample

\* s * 0x7FFF, s * 0x8000, int16[i] / 32768.0
PositiveScale == 32767
NegativeScale == 32768
DecodeDen == 32768

\* A conversion that does not clamp.
ClampNone(s) == s

\* Math.max(-1, Math.min(1, s))
Clamp(s) == Max(-SampleDen, Min(SampleDen, s))

\* The integer part of num / den (den > 0): the fraction is dropped.
Trunc(num, den) == IF num >= 0 THEN num \div den ELSE -((-num) \div den)

\* The store of the integer n into an Int16Array element: modulo 2^16.
ToInt16(n) == ((n + 32768) % 65536) - 32768

\* pcmData[i] = s < 0 ? s * 0x8000 : s * 0x7FFF, with s the clamped sample.
Encode(sample) ==
    LET s == Clamp(sample)
    IN  ToInt16(Trunc(IF s < 0 THEN s * NegativeScale ELSE s * PositiveScale,
                      SampleDen))

\* float32[i] = int16[i] / 32768.0: the numerator of the result over DecodeDen.
Decode(int16) == int16

\* The state of the hooks' sessions, which the code outside them leaves alone.
sessionVars ==
    <<rtcVars, emitted, hook, isConnected, isConnecting, error, closure, pc,
      ctxState, mediaStreamRef, inputSourceRef, inputProcessorRef, sessionRef,
      greetingSentRef, nextScheduledTimeRef, currentTime, stream, inputSource,
      processor, onaudioprocess, session, abandoned, connectedBy, relCount,
      sendLog, liveLog, lastSched>>

\* onaudioprocess has one sample of the captured (and resampled) frame.
InitPcm ==
    /\ HooksInit
    /\ hook = "useLiveApi"
    /\ codecPc = "captured"
    /\ dataToSend \in Samples
    /\ pcmData = 0
    /\ float32 = 0
    /\ PromptIdle
    /\ RelayIdle
    /\ LogEmpty

\* The loop body of the Float32 to Int16 conversion.
EncodeSample ==
    /\ codecPc = "captured"
    /\ pcmData' = Encode(dataToSend)
    /\ codecPc' = "encoded"
    /\ UNCHANGED <<sessionVars, promptVars, relayVars, conversationLog, dataToSend, float32>>

\* The loop body of the Int16 to Float32 conversion, on the encoded sample.
DecodeSample ==
    /\ codecPc = "encoded"
    /\ float32' = Decode(pcmData)
    /\ codecPc' = "decoded"
    /\ UNCHANGED <<sessionVars, promptVars, relayVars, conversationLog, dataToSend, pcmData>>

NextPcm ==
    \/ EncodeSample
    \/ DecodeSample

SpecPcm == InitPcm /\ [][NextPcm]_vars

\* C21: the encoder clamps the sample to [-1, 1]: 1.0 and above give 32767,
\* -1.0 and below give -32768, 0.0 gives 0; a negative sample inside the range
\* is scaled by 32768 and a non-negative one by 32767 (the fraction dropped);
\* every encoded value lies in [-32768, 32767].
C21_EncoderClampsAndScales ==
    codecPc \in {"encoded", "decoded"} =>
        /\ pcmData \in -32768..32767
        /\ dataToSend >= SampleDen => pcmData = 32767
        /\ dataToSend <= -SampleDen => pcmData = -32768
        /\ dataToSend = 0 => pcmData = 0
        /\ (dataToSend < 0 /\ dataToSend > -SampleDen) =>
              /\ pcmData * SampleDen >= dataToSend * 32768
              /\ pcmData * SampleDen < dataToSend * 32768 + SampleDen
        /\ (dataToSend >= 0 /\ dataToSend < SampleDen) =>
              /\ pcmData * SampleDen <= dataToSend * 32767
              /\ pcmData * SampleDen > dataToSend * 32767 - SampleDen

\* C21 witness: a sample above 1.0 was encoded as 32767.
C21_Witness ==
    codecPc = "encoded" /\ dataToSend > SampleDen /\ pcmData = 32767

\* C22: for a sample in [-1, 1], the decoded value of its encoding is within
\* one quantization step (1 / 32768) of the sample.
C22_RoundTripWithinOneStep ==
    (codecPc = "decoded" /\ dataToSend \in -SampleDen..SampleDen) =>
        /\ dataToSend * DecodeDen - float32 * SampleDen <= SampleDen
        /\ float32 * SampleDen - dataToSend * DecodeDen <= SampleDen

----------------------------------------------------------------------------
\* buildMathTutorSystemInstruction.  A string is a sequence whose elements are
\* the characters of the arguments and the fixed passages of the template.

MaxPromptLen == 2

\* The fixed passages of the template.
Preamble == "You are a math tutor ... Question: "
AnswerLabel == "Correct answer (for your reference only, do not reveal): "
Newline == "(newline)"
AttemptLabel == "STUDENT'S ATTEMPT (wrong answer they typed): "
AnalysisDirective == "ANALYZE THE WRONG ANSWER: ..."
Behavior == "YOUR BEHAVIOR: 1. ... 9. Speak only in English. ..."
Preamble2 == "You are a math tutor ... Question: (second definition)"
Behavior2 == "YOUR BEHAVIOR: 1. ... 7. Keep responses concise ..."

\* The values of the optional parameter wrongAnswer.
WrongAnswers ==
    {Undefined} \cup {[defined |-> TRUE, text |-> t] : t \in TextsUpTo(MaxPromptLen)}

\* The test without the trim.
AttemptGivenUntrimmed(w) == w.defined /\ w.text # <<>>

\* wrongAnswer?.trim() is truthy.
AttemptGiven(w) == w.defined /\ Trim(w.text) # <<>>

\* const wrongAnswerSection = wrongAnswer?.trim() ? `...` : ""
WrongAnswerSection(w) ==
    IF AttemptGiven(w)
    THEN <<Newline, AttemptLabel>> \o Trim(w.text) \o <<Newline, AnalysisDirective>>
    ELSE <<>>

\* The first definition (three parameters).
BuildMathTutorSystemInstruction(q, a, w) ==
    <<Preamble>> \o q \o <<Newline, AnswerLabel>> \o a \o <<Newline>>
       \o WrongAnswerSection(w) \o <<Newline, Behavior>>

\* The second definition (two parameters).
BuildMathTutorSystemInstruction2(q, a) ==
    <<Preamble2>> \o q \o <<Newline, AnswerLabel>> \o a \o <<Newline, Behavior2>>

\* A caller has its arguments ready: for the first definition, or for the
\* second, which has no wrongAnswer parameter.
InitPrompt ==
    /\ HooksInit
    /\ CodecIdle
    /\ RelayIdle
    /\ LogEmpty
    /\ promptPc \in {"called", "called2"}
    /\ question \in TextsUpTo(MaxTextLen)
    /\ answer \in TextsUpTo(MaxTextLen)
    /\ wrongAnswer \in WrongAnswers
    /\ promptPc = "called2" => wrongAnswer = Undefined
    /\ systemInstruction = <<>>

BuildPrompt ==
    /\ promptPc = "called"
    /\ systemInstruction' = BuildMathTutorSystemInstruction(question, answer, wrongAnswer)
    /\ promptPc' = "built"
    /\ UNCHANGED <<sessionVars, codecVars, relayVars, conversationLog, question, answer, wrongAnswer>>

BuildPrompt2 ==
    /\ promptPc = "called2"
    /\ systemInstruction' = BuildMathTutorSystemInstruction2(question, answer)
    /\ promptPc' = "built"
    /\ UNCHANGED <<sessionVars, codecVars, relayVars, conversationLog, question, answer, wrongAnswer>>

NextPrompt == BuildPrompt \/ BuildPrompt2

SpecPrompt == InitPrompt /\ [][NextPrompt]_vars

\* String.prototype.includes: part occurs in whole as a run of elements.
Includes(whole, part) ==
    \E i \in 0..(Len(whole) - Len(part)) :
        SubSeq(whole, i + 1, i + Len(part)) = part

----------------------------------------------------------------------------
\* The relay: app.post("/api/openai/session", ...) of server.ts.

OPENAI_REALTIME_MODEL == "gpt-realtime"

\* The statuses the upstream endpoint answers with.
UpstreamStatuses == {200, 201, 300, 401, 500}

\* Response.ok
Ok(status) == status \in 200..299

\* sessionData?.client_secret?.value: missing (falsy), or the secret.
ClientSecrets == {"", "ek_1"}

\* res.status(status).json({error: ...}) and res.json({clientSecret, model}).
ErrorResponse(status) ==
    [status |-> status, error |-> TRUE, clientSecret |-> "", model |-> ""]
SessionResponse(secret) ==
    [status |-> 200, error |-> FALSE, clientSecret |-> secret,
     model |-> OPENAI_REALTIME_MODEL]

\* The server runs with or without the secret in its environment.
InitRelay ==
    /\ HooksInit
    /\ CodecIdle
    /\ PromptIdle
    /\ LogEmpty
    /\ apiKey \in BOOLEAN
    /\ relayPc = [r \in Requests |-> "idle"]
    /\ sessionResp = [r \in Requests |-> 0]
    /\ res = [r \in Requests |-> <<>>]

\* Request r arrives: the handler up to its first await.
RelayPost(r) ==
    /\ relayPc[r] = "idle"
    /\ IF ~apiKey
       THEN /\ res' = [res EXCEPT ![r] = Append(@, ErrorResponse(500))]
            /\ relayPc' = [relayPc EXCEPT ![r] = "responded"]
       ELSE /\ relayPc' = [relayPc EXCEPT ![r] = "fetch"]
            /\ UNCHANGED res
    /\ UNCHANGED <<sessionVars, codecVars, promptVars, conversationLog, apiKey, sessionResp>>

\* The upstream fetch resolves with a response of the given status.
RelayFetchResolves(r, status) ==
    /\ relayPc[r] = "fetch"
    /\ sessionResp' = [sessionResp EXCEPT ![r] = status]
    /\ relayPc' = [relayPc EXCEPT ![r] = IF Ok(status) THEN "json" ELSE "text"]
    /\ UNCHANGED <<sessionVars, codecVars, promptVars, conversationLog, apiKey, res>>

\* await sessionResp.text() resolves: the upstream status is passed on.
RelayTextResolves(r) ==
    /\ relayPc[r] = "text"
    /\ res' = [res EXCEPT ![r] = Append(@, ErrorResponse(sessionResp[r]))]
    /\ relayPc' = [relayPc EXCEPT ![r] = "responded"]
    /\ UNCHANGED <<sessionVars, codecVars, promptVars, conversationLog, apiKey, sessionResp>>

\* await sessionResp.json() resolves with or without a client secret.
RelayJsonResolves(r, clientSecret) ==
    /\ relayPc[r] = "json"
    /\ res' = [res EXCEPT ![r] =
                  Append(@, IF clientSecret = "" THEN ErrorResponse(500)
                                                 ELSE SessionResponse(clientSecret))]
    /\ relayPc' = [relayPc EXCEPT ![r] = "responded"]
    /\ UNCHANGED <<sessionVars, codecVars, promptVars, conversationLog, apiKey, sessionResp>>

\* The fetch or the reading of the body throws: the catch block.
RelayAwaitThrows(r) ==
    /\ relayPc[r] \in {"fetch", "text", "json"}
    /\ res' = [res EXCEPT ![r] = Append(@, ErrorResponse(500))]
    /\ relayPc' = [relayPc EXCEPT ![r] = "responded"]
    /\ UNCHANGED <<sessionVars, codecVars, promptVars, conversationLog, apiKey, sessionResp>>

NextRelay ==
    \E r \in Requests :
        \/ RelayPost(r)
        \/ \E status \in UpstreamStatuses : RelayFetchResolves(r, status)
        \/ RelayTextResolves(r)
        \/ \E clientSecret \in ClientSecrets : RelayJsonResolves(r, clientSecret)
        \/ RelayAwaitThrows(r)

SpecRelay == InitRelay /\ [][NextRelay]_vars

\* The response is a success that carries a non-empty clientSecret and the model.
IsSuccess(resp) ==
    /\ resp.status \in 200..299 /\ ~resp.error
    /\ resp.clientSecret # "" /\ resp.model = OPENAI_REALTIME_MODEL

\* C24: every POST gets exactly one response, which is either a success
\* carrying a non-empty clientSecret and the model, or a status >= 400 with an
\* error body; no success is sent when the server secret is unset, the upstream
\* call is non-OK or throws, or the upstream body has no client secret.
C24_OneResponseSuccessOrError ==
    \A r \in Requests :
        /\ Len(res[r]) <= 1
        /\ relayPc[r] = "responded" <=> Len(res[r]) = 1
        /\ \A i \in DOMAIN res[r] :
              /\ IsSuccess(res[r][i]) => apiKey /\ sessionResp[r] \in 200..299
              /\ \/ IsSuccess(res[r][i])
                 \/ res[r][i].status >= 400 /\ res[r][i].error

----------------------------------------------------------------------------
\* The conversation log of the page: onUserTranscript and onAgentTranscript of
\* App and OpenAIApp.

MaxLog == 3
MaxEntryLen == 2

Roles == {"user", "agent"}

\* The updater that always appends.
UpdateLogAppending(prev, role, text) ==
    Append(prev, [role |-> role, text |-> Trim(text)])

\* The updater handed to setConversationLog: the last entry grows when it has
\* the delta's role, otherwise a new entry is appended.
UpdateLog(prev, role, text) ==
    IF Len(prev) > 0 /\ prev[Len(prev)].role = role
    THEN [prev EXCEPT ![Len(prev)].text = @ \o text]
    ELSE Append(prev, [role |-> role, text |-> Trim(text)])

\* The log stays within the bounds.
LogWithinBounds(log) ==
    /\ Len(log) <= MaxLog
    /\ \A i \in DOMAIN log : Len(log[i].text) <= MaxEntryLen

\* The callback of the given role receives text.
DeliverTranscript(role, text) ==
    /\ conversationLog' =
          IF Trim(text) = <<>> THEN conversationLog
                               ELSE UpdateLog(conversationLog, role, text)
    /\ LogWithinBounds(conversationLog')
    /\ UNCHANGED <<sessionVars, codecVars, promptVars, relayVars>>

OnUserTranscript(text) == DeliverTranscript("user", text)

OnAgentTranscript(text) == DeliverTranscript("agent", text)

\* setConversationLog([]) of handleSubmit and handleDisconnect.
ClearConversationLog ==
    /\ conversationLog # <<>>
    /\ conversationLog' = <<>>
    /\ UNCHANGED <<sessionVars, codecVars, promptVars, relayVars>>

InitLog == Init

NextLog ==
    \/ ClearConversationLog
    \/ \E text \in TextsUpTo(MaxTextLen) :
          OnUserTranscript(text) \/ OnAgentTranscript(text)

SpecLog == InitLog /\ [][NextLog]_vars

\* No two adjacent entries of log have the same role.
RolesAlternate(log) ==
    \A i \in 1..(Len(log) - 1) : log[i].role # log[i + 1].role

\* log is prev with one more entry, of the given role.
EntryAppended(prev, log, role) ==
    /\ Len(log) = Len(prev) + 1
    /\ SubSeq(log, 1, Len(prev)) = prev
    /\ log[Len(log)].role = role

\* log is prev with text concatenated onto its last entry.
LastEntryGrown(prev, log, text) ==
    /\ Len(log) = Len(prev) /\ Len(prev) > 0
    /\ SubSeq(log, 1, Len(prev) - 1) = SubSeq(prev, 1, Len(prev) - 1)
    /\ log[Len(log)].role = prev[Len(prev)].role
    /\ log[Len(log)].text = prev[Len(prev)].text \o text

\* C25: the conversation log never has two adjacent entries of the same role:
\* a delta of the last entry's role is concatenated onto that entry, a delta of
\* the other role appends a new entry, and an empty or blank delta leaves the
\* log unchanged.
C25_LogMergesSameRole ==
    [][/\ RolesAlternate(conversationLog')
       /\ \A role \in Roles, text \in TextsUpTo(MaxTextLen) :
             DeliverTranscript(role, text) =>
                IF Trim(text) = <<>>
                THEN conversationLog' = conversationLog
                ELSE IF conversationLog # <<>>
                        /\ conversationLog[Len(conversationLog)].role = role
                     THEN LastEntryGrown(conversationLog, conversationLog', text)
                     ELSE EntryAppended(conversationLog, conversationLog', role)]_vars

\* C25 witness: an agent entry that grew by a second delta, then a user entry.
C25_Witness ==
    /\ Len(conversationLog) = 2
    /\ conversationLog[1] = [role |-> "agent", text |-> <<"a", "b">>]
    /\ conversationLog[2].role = "user"

----------------------------------------------------------------------------
\* Response lifecycle of useOpenAiWebRtc.

\* A response was requested (or announced by response.created) and has neither
\* completed nor timed out: its watchdog is still pending.
ResponseInFlight == pendingTimers # {}

\* This step handles a user transcript on channel a and sends a response.create.
UserTurnRequests(a, p) ==
    UserTranscriptStep(a, p) /\ Emits(Out("response.create", <<>>), emitted')

\* C26: an accepted user transcript sends a response.create only if the
\* responding flag is not set, and then sets the flag and arms the watchdog in
\* the same step; no response.create is sent for a user utterance while a
\* response requested earlier (the greeting response included) has neither
\* completed nor timed out.
C26_RequestOnlyWhenNoneInFlight ==
    [][\A a \in Attempts, p \in AnyPayloads :
          UserTurnRequests(a, p) =>
             /\ ~assistantRespondingRef
             /\ assistantRespondingRef'
             /\ responseWatchdogRef' = now + WatchdogTimeout
             /\ responseWatchdogRef' \in pendingTimers'
             /\ ~ResponseInFlight]_vars

\* The payload of a lifecycle event of the given type.
Lifecycle(type) == [type |-> type, text |-> <<>>]

\* C27: on every response.created the responding flag becomes true and the
\* watchdog is re-armed with a full timeout from now, the timer pending before
\* being cancelled; the last accepted transcript and the last turn-end time are
\* unchanged.
C27_CreatedSetsFlagAndRearms ==
    [][\A a \in Attempts :
          RtcDataChannelOnMessage(a, Lifecycle("response.created")) =>
             /\ assistantRespondingRef'
             /\ responseWatchdogRef' = now + WatchdogTimeout
             /\ pendingTimers' = {now + WatchdogTimeout}
             /\ UNCHANGED <<lastHandledUserTranscriptRef, lastAssistantDoneAtRef>>]_vars

\* C27 witness: the watchdog armed when the channel opened was replaced, one
\* tick later, by the one response.created armed.
C27_Witness ==
    /\ assistantRespondingRef
    /\ now = StartNow + TickStep
    /\ responseWatchdogRef = now + WatchdogTimeout
    /\ pendingTimers = {now + WatchdogTimeout}
    /\ lastHandledUserTranscriptRef = <<>>
    /\ emitted = <<>>

\* C28: on every response.done or response.error the responding flag becomes
\* false, the last turn-end time becomes the current time and no watchdog
\* timer remains pending; the last accepted transcript is unchanged.
C28_DoneClearsFlagAndDisarms ==
    [][\A a \in Attempts, type \in {"response.done", "response.error"} :
          RtcDataChannelOnMessage(a, Lifecycle(type)) =>
             /\ ~assistantRespondingRef'
             /\ lastAssistantDoneAtRef' = now
             /\ pendingTimers' = {}
             /\ responseWatchdogRef' = Null
             /\ UNCHANGED lastHandledUserTranscriptRef]_vars

\* C28 witness: a response requested for a user transcript has completed.
C28_Witness ==
    /\ ~assistantRespondingRef
    /\ lastAssistantDoneAtRef = now
    /\ pendingTimers = {} /\ responseWatchdogRef = Null
    /\ lastHandledUserTranscriptRef # <<>>
    /\ \E a \in Attempts : dataChannel[a] = "open"

\* C29: the watchdog callback runs only for the most recently armed timer and
\* only once WatchdogTimeout has elapsed since that arming; response.done,
\* response.error and disconnect() leave no timer pending, so it never runs
\* after one of them that followed the last arming; and when it runs nothing is
\* sent on the data channel.
C29_WatchdogFiresOnlyAfterTimeout ==
    /\ [](pendingTimers \subseteq {responseWatchdogRef})
    /\ [][/\ \A t \in pendingTimers :
               WatchdogFires(t) =>
                  /\ t = responseWatchdogRef
                  /\ now - (responseWatchdogRef - WatchdogTimeout) >= WatchdogTimeout
                  /\ emitted' = <<>>
                  /\ pendingTimers' = {}
          /\ RtcDisconnect => pendingTimers' = {}
          /\ \A a \in Attempts, type \in {"response.done", "response.error"} :
                RtcDataChannelOnMessage(a, Lifecycle(type)) => pendingTimers' = {}]_vars

\* C29 witness: the watchdog has just run on an open channel, a full timeout
\* after it was armed.
C29_Witness ==
    /\ pendingTimers = {}
    /\ responseWatchdogRef # Null
    /\ now >= responseWatchdogRef
    /\ ~assistantRespondingRef
    /\ lastAssistantDoneAtRef = now
    /\ emitted = <<>>
    /\ \E a \in Attempts : dataChannel[a] = "open"

\* Audio scheduling of useLiveApi.

\* An audio payload of some duration reaches callbacks.onmessage of attempt a.
AudioScheduled(a) ==
    \E d \in 1..MaxDuration : LiveOnMessage(a, AudioMessage(d))

\* C30: each audio payload starts at the later of the playback clock and the
\* next free slot, and the next free slot becomes its end; of two consecutive
\* payloads, the later one starts exactly at the earlier one's end whenever it
\* was scheduled before that end, and starts after that end only if the
\* playback clock at scheduling time had already passed it.
C30_ScheduledBackToBack ==
    /\ [][\A a \in Attempts :
            AudioScheduled(a) =>
               /\ lastSched'.clock = currentTime
               /\ lastSched'.start = IF currentTime >= nextScheduledTimeRef
                                     THEN currentTime ELSE nextScheduledTimeRef
               /\ nextScheduledTimeRef' = lastSched'.end]_vars
    /\ [](lastSched.n >= 2 =>
            /\ lastSched.clock < lastSched.prevEnd => lastSched.start = lastSched.prevEnd
            /\ lastSched.start > lastSched.prevEnd => lastSched.clock > lastSched.prevEnd)

\* Output analyser of useOpenAiWebRtc.

\* ensureRemoteAnalyser has wired the output analyser of session a.
AnalyserWired(a) == outputSource[a] = "connected"

\* C31: an ontrack event that leaves the remote stream without an audio track
\* wires nothing; the first one that yields an audio track wires the session's
\* output analyser; later ones wire nothing more; so after every ontrack event
\* of a session whose remote stream holds an audio track, that session's
\* analyser is wired.
C31_AnalyserWiredOncePerSession ==
    [][\A a \in Attempts, audio \in BOOLEAN :
          RtcOnTrack(a, audio) =>
             /\ remoteStream'[a] # "audio" => UNCHANGED <<outputSource, outputSourceRef>>
             /\ AnalyserWired(a) => UNCHANGED <<outputSource, outputSourceRef>>
             /\ remoteStream'[a] = "audio" => AnalyserWired(a)']_vars

\* Connection flags of both hooks.

\* C32: isConnected and isConnecting are never both true.
C32_NeverConnectedAndConnecting == ~(isConnected /\ isConnecting)

\* The session is Idle: neither connected nor connecting.
Idle == ~isConnected /\ ~isConnecting

\* C33: whenever the session is Idle no microphone track is live, no capture
\* processor is still connected, and no session, peer connection or data
\* channel handle is stored.
C33_IdleHoldsNoResource ==
    Idle =>
       /\ \A a \in Attempts : /\ stream[a] # "live" /\ localStream[a] # "live"
                               /\ processor[a] # "connected"
       /\ sessionRef = Null /\ peerConnectionRef = Null /\ dataChannelRef = Null

\* Liveness of the responding flag of useOpenAiWebRtc.

\* Timers eventually fire: time passes, and a timer that is due runs.
FairSpecEvents ==
    /\ SpecEvents
    /\ WF_vars(Tick(WatchdogTimeout))
    /\ WF_vars(\E t \in pendingTimers : WatchdogFires(t))

\* The deadlines of the watchdogs that fall within the time modelled.
Deadlines == {StartNow + i * TickStep + WatchdogTimeout : i \in 0..MaxTicks}

\* C34: whenever the responding flag is true a watchdog timer is pending; and
\* (timers eventually firing) from every state where the flag is true, with the
\* timer due within the time modelled, the flag eventually is false unless an
\* inbound event re-arms the watchdog with a later deadline.
C34_RespondingEventuallyCleared ==
    /\ [](assistantRespondingRef => pendingTimers # {})
    /\ \A d \in Deadlines :
          (assistantRespondingRef /\ responseWatchdogRef = d)
             ~> (~assistantRespondingRef \/ responseWatchdogRef # d)

\* C34 witness: the flag a user request had set was cleared by the watchdog,
\* at the end of the time modelled.
C34_Witness ==
    /\ ~assistantRespondingRef
    /\ lastHandledUserTranscriptRef # <<>>
    /\ pendingTimers = {} /\ responseWatchdogRef # Null
    /\ lastAssistantDoneAtRef = now /\ now = MaxNow

\* C35: at most one watchdog timer is pending, and it is the one armed last;
\* the callback that runs is that timer's, never a superseded one's.
C35_AtMostOneWatchdogPending ==
    /\ [](Cardinality(pendingTimers) <= 1)
    /\ [](\A t \in pendingTimers : t = responseWatchdogRef)
    /\ [][\A t \in pendingTimers :
            WatchdogFires(t) => t = responseWatchdogRef /\ pendingTimers' = {}]_vars

\* C35 witness: the watchdog the greeting armed when the channel opened has
\* been superseded, one tick later, by the one a user-transcript request armed.
C35_Witness ==
    /\ now = StartNow + TickStep
    /\ lastHandledUserTranscriptRef # <<>>
    /\ assistantRespondingRef
    /\ pendingTimers = {now + WatchdogTimeout}
    /\ Emits(Out("response.create", <<>>), emitted)

\* The inbound events that are neither the start nor the end of a response.
OtherPayloads ==
    {p \in AnyPayloads :
        p.type \notin {"response.created", "response.done", "response.error"}}

\* C36: while a response is in progress (the responding flag is true), an
\* inbound event other than response.created, response.done and response.error
\* leaves the flag true, records no turn-end time and leaves the watchdog armed
\* as it was.
C36_OnlyCompletionClearsFlag ==
    [][\A a \in Attempts, p \in OtherPayloads :
          (assistantRespondingRef /\ RtcDataChannelOnMessage(a, p)) =>
             /\ assistantRespondingRef'
             /\ UNCHANGED <<lastAssistantDoneAtRef, responseWatchdogRef, pendingTimers>>]_vars

\* C37: the watchdog callback records the current time as the last turn end,
\* and that time stays recorded for as long as the watchdog is neither re-armed
\* nor cleared; a completed user transcript (non-blank) that arrives meanwhile
\* less than SuppressionWindow after it is dropped and changes nothing, and one
\* that arrives later is forwarded and requests a response exactly when its
\* normalized text differs from the last accepted one.
C37_WatchdogOpensSuppressionWindow ==
    [][/\ \A t \in pendingTimers :
             WatchdogFires(t) => lastAssistantDoneAtRef' = now /\ WatchdogFired'
       /\ (WatchdogFired /\ WatchdogFired') =>
             /\ UNCHANGED lastAssistantDoneAtRef
             /\ ~assistantRespondingRef
       /\ \A a \in Attempts, p \in AnyPayloads :
             (UserTranscriptStep(a, p) /\ WatchdogFired) =>
                IF now - lastAssistantDoneAtRef < SuppressionWindow
                THEN emitted' = <<>> /\ UNCHANGED turnVars
                ELSE IF ToLowerCase(Trim(p.text)) = lastHandledUserTranscriptRef
                THEN emitted' = <<>> /\ UNCHANGED turnVars
                ELSE /\ Emits(Out("onUserTranscript", Trim(p.text)), emitted')
                     /\ Emits(Out("response.create", <<>>), emitted')]_vars

\* C37 witness: the watchdog has run and a non-blank user transcript that is
\* not the last accepted one was dropped within the window it opened.
C37_Witness ==
    /\ WatchdogFired
    /\ lastAssistantDoneAtRef >= responseWatchdogRef
    /\ now - lastAssistantDoneAtRef < SuppressionWindow
    /\ prevUser.seen /\ prevUser.silent
    /\ prevUser.norm # <<>> /\ prevUser.norm # lastHandledUserTranscriptRef
    /\ emitted = <<>>

\* C38: the last accepted user transcript changes only when a transcript with
\* a different normalized text is accepted (it becomes that text) or when
\* connect() or disconnect() runs; and a completed user transcript whose
\* normalized text equals it is dropped and changes nothing, whatever the time
\* and whatever agent turns have passed.
C38_DedupMemoryHeldForSession ==
    [][/\ lastHandledUserTranscriptRef' # lastHandledUserTranscriptRef =>
             \/ RtcDisconnect
             \/ \E a \in Attempts : RtcConnect(a)
             \/ \E a \in Attempts, p \in AnyPayloads :
                   /\ UserTranscriptStep(a, p)
                   /\ lastHandledUserTranscriptRef' = ToLowerCase(Trim(p.text))
                   /\ Emits(Out("onUserTranscript", Trim(p.text)), emitted')
       /\ \A a \in Attempts, p \in AnyPayloads :
             (/\ UserTranscriptStep(a, p)
              /\ ToLowerCase(Trim(p.text)) = lastHandledUserTranscriptRef) =>
                emitted' = <<>> /\ UNCHANGED turnVars]_vars

\* C38 witness: after a turn of the agent has ended and the suppression window
\* has passed, the last user transcript delivered repeated the accepted one and
\* was dropped.
C38_Witness ==
    /\ lastHandledUserTranscriptRef # <<>>
    /\ prevUser.seen /\ prevUser.silent
    /\ prevUser.norm = lastHandledUserTranscriptRef
    /\ lastAssistantDoneAtRef # 0
    /\ now - lastAssistantDoneAtRef >= SuppressionWindow
    /\ responseWatchdogRef = Null
    /\ emitted = <<>>

\* The completed user-transcript payloads, with or without text.
UserPayloads == {p \in AnyPayloads : p.type = UserCompleted}

\* C39: a completed user transcript that is empty after trimming, repeats the
\* last accepted one or arrives inside the suppression window sends and calls
\* back nothing and leaves the whole TurnState unchanged; and when a transcript
\* was dropped and the same text is delivered again outside the window, not
\* being the last accepted one, it is forwarded.
C39_DroppedTranscriptChangesNothing ==
    [][\A a \in Attempts, p \in UserPayloads :
          RtcDataChannelOnMessage(a, p) =>
             /\ (\/ Trim(p.text) = <<>>
                 \/ ToLowerCase(Trim(p.text)) = lastHandledUserTranscriptRef
                 \/ InsideWindow)
                  => emitted' = <<>> /\ UNCHANGED turnVars
             /\ (/\ Trim(p.text) # <<>>
                 /\ prevUser.seen /\ prevUser.silent
                 /\ prevUser.norm = ToLowerCase(Trim(p.text))
                 /\ ToLowerCase(Trim(p.text)) # lastHandledUserTranscriptRef
                 /\ ~InsideWindow)
                  => /\ Emits(Out("onUserTranscript", Trim(p.text)), emitted')
                     /\ lastHandledUserTranscriptRef' = ToLowerCase(Trim(p.text))]_vars

\* C39 witness: a transcript dropped inside the suppression window was
\* delivered again after the window and forwarded.
C39_Witness ==
    /\ prevUser.seen /\ prevUser.same /\ ~prevUser.dup /\ ~prevUser.silent
    /\ prevUser.norm = lastHandledUserTranscriptRef
    /\ lastAssistantDoneAtRef # 0
    /\ now - lastAssistantDoneAtRef >= SuppressionWindow
    /\ \E e \in {emitted[i] : i \in DOMAIN emitted} : e.kind = "onUserTranscript"

\* Muting the microphone in useOpenAiWebRtc.

\* A setMuted that sets the flag and leaves the tracks as they are.
SetMutedFlagOnly(muted) ==
    /\ hook = "useOpenAiWebRtc"
    /\ IF localStreamRef = Null
       THEN UNCHANGED <<trackEnabled, isMicMuted>>
       ELSE /\ UNCHANGED trackEnabled
            /\ isMicMuted' = muted
    /\ emitted' = <<>>
    /\ UNCHANGED <<hook, appVars, liveVars, prevUser, chanLog, isConnected, isConnecting,
                   error, closure, pc, ctxState, inputSourceRef, inputSource, rtcRefs,
                   localStream, remoteStream, audioElement, peerConnection,
                   dataChannel, outputSource, turnVars, now, abandoned, connectedBy,
                   relCount>>

\* setMuted(muted)
SetMuted(muted) ==
    /\ hook = "useOpenAiWebRtc"
    /\ IF localStreamRef = Null
       THEN UNCHANGED <<trackEnabled, isMicMuted>>
       ELSE /\ trackEnabled' = [trackEnabled EXCEPT ![localStreamRef] = ~muted]
            /\ isMicMuted' = muted
    /\ emitted' = <<>>
    /\ UNCHANGED <<hook, appVars, liveVars, prevUser, chanLog, isConnected, isConnecting,
                   error, closure, pc, ctxState, inputSourceRef, inputSource, rtcRefs,
                   localStream, remoteStream, audioElement, peerConnection,
                   dataChannel, outputSource, turnVars, now, abandoned, connectedBy,
                   relCount>>

\* toggleMute(): the isMicMuted it negates is the one its render captured.
ToggleMute ==
    /\ hook = "useOpenAiWebRtc"
    /\ LET nextMuted == ~closure.isMicMuted
       IN  IF localStreamRef = Null
           THEN UNCHANGED <<trackEnabled, isMicMuted>>
           ELSE /\ trackEnabled' = [trackEnabled EXCEPT ![localStreamRef] = ~nextMuted]
                /\ isMicMuted' = nextMuted
    /\ emitted' = <<>>
    /\ UNCHANGED <<hook, appVars, liveVars, prevUser, chanLog, isConnected, isConnecting,
                   error, closure, pc, ctxState, inputSourceRef, inputSource, rtcRefs,
                   localStream, remoteStream, audioElement, peerConnection,
                   dataChannel, outputSource, turnVars, now, abandoned, connectedBy,
                   relCount>>

\* useOpenAiWebRtc with its mute controls: connect(), disconnect(), the awaited
\* steps with their failures, the transport callbacks, setMuted and toggleMute.
NextMute ==
    \/ Render
    \/ RtcDisconnect
    \/ ToggleMute
    \/ \E muted \in BOOLEAN : SetMuted(muted)
    \/ \E a \in Attempts :
          \/ RtcConnect(a)
          \/ RtcAwaitOk(a)
          \/ \E ok \in BOOLEAN : RtcFetchResponds(a, ok)
          \/ RtcGumOk(a)
          \/ RtcAwaitRejects(a)
          \/ RtcNotOkThrows(a)
          \/ \E s \in {"connecting", "connected", "disconnected", "failed"} :
                RtcOnConnectionStateChange(a, s)

SpecMute == InitRtc /\ [][NextMute]_vars

\* C40: whenever a local stream is held, isMicMuted is true exactly when its
\* audio track is disabled; setMuted and toggleMute change nothing when no
\* local stream is held; and isMicMuted is false after connect() has acquired
\* the stream and after disconnect().
C40_MuteFlagMatchesTracks ==
    /\ [](localStreamRef # Null => (isMicMuted <=> ~trackEnabled[localStreamRef]))
    /\ [][/\ (localStreamRef = Null /\ (ToggleMute \/ \E m \in BOOLEAN : SetMuted(m)))
                => UNCHANGED <<isMicMuted, trackEnabled>>
          /\ (\E a \in Attempts : RtcGumOk(a))
                => (~isMicMuted' /\ trackEnabled'[localStreamRef'])
          /\ RtcDisconnect => (~isMicMuted' /\ localStreamRef' = Null)]_vars

\* C40 witness: the held microphone stream is muted.
C40_Witness ==
    /\ localStreamRef # Null
    /\ localStream[localStreamRef] = "live"
    /\ isMicMuted /\ ~trackEnabled[localStreamRef]
    /\ isConnected

====
